---- MODULE Spec2Model ----
(***************************************************************************)
(* Scheduling + ledger engine of the WE-SPEND-WISE backend:                *)
(*   utils/cronJobs.js        daily income / expense batch                 *)
(*   models/Income, Expense   updateRelaxationDate                         *)
(*   routes/expenses, incomes POST (fixed and spontaneous sources)         *)
(*   routes/transactions      POST (manual ledger entry)                   *)
(*                                                                         *)
(* Time is counted in hours since 1 January BaseYear, 00:00 local time.    *)
(* A Date is an integer number of hours; null dates are NoDate.            *)
(***************************************************************************)
EXTENDS Integers, Sequences, FiniteSets, TLC

\* ------------------------------------------------------------------ bounds
BaseYear == 2024
WindowDays == 31        \* days the clock runs on from the day it starts at
MaxAmount == 1          \* request amounts are drawn from 0..MaxAmount
MaxInitAmount == 1      \* initialAmount of the wallet is in 0..MaxInitAmount
MaxSources == 1         \* sources the requests create
BatchSources == 2       \* fixed sources in the database the batch runs over
YearDays == 366         \* days the clock runs on where a year has to pass
MaxTx == 2              \* Transaction documents ever created
MaxFaults == 1          \* persistence calls that reject, over a behaviour
MaxOps == 2             \* operations that may be in flight at once
MaxWallets == 2         \* wallets a user ever creates
MaxUsers == 3           \* users of the User collection
MaxBodyFields == 2      \* fields one update request carries

\* ------------------------------------------------------ program constants
CronHour == 9
validMonths == {0, 3, 6, 9}
CycleTypes == {"monthly", "quarterly", "yearly"}

NoDate == -1            \* null / undefined Date
NoDay == 0              \* undefined cycleDate
NoType == "none"        \* undefined cycleType
Undefined == -2         \* value of a property that is not on the document

\* the cycleDate values requests carry, and the days of the month on which
\* the model looks at the system: on every other day shouldProcess* returns
\* false at its first test for every source, and nothing else reads the day
CycleDays == {15}
ObservedDays == CycleDays \cup {1}

Amounts == 0..MaxAmount
WalletIds == {1}

Max(S) == CHOOSE x \in S : \A y \in S : y <= x
Min(S) == CHOOSE x \in S : \A y \in S : x <= y

\* ---------------------------------------------------------------- calendar
IsLeap(y) == (y % 4 = 0 /\ y % 100 # 0) \/ y % 400 = 0

DaysInYear(y) == IF IsLeap(y) THEN 366 ELSE 365

DaysInMonth(y, m) ==
  IF m = 1 THEN (IF IsLeap(y) THEN 29 ELSE 28)
  ELSE IF m \in {3, 5, 8, 10} THEN 30 ELSE 31

RECURSIVE DaysBeforeYear(_)
DaysBeforeYear(y) ==
  IF y <= BaseYear THEN 0 ELSE DaysBeforeYear(y - 1) + DaysInYear(y - 1)

RECURSIVE DaysBeforeMonth(_, _)
DaysBeforeMonth(y, m) ==
  IF m = 0 THEN 0 ELSE DaysBeforeMonth(y, m - 1) + DaysInMonth(y, m - 1)

\* new Date(year, monthIndex, day): local midnight, with the month index and
\* the day rolling over into the following year / month
MkDate(y, m, d) ==
  LET yy == y + (m \div 12)
      mm == m % 12
  IN (DaysBeforeYear(yy) + DaysBeforeMonth(yy, mm) + d - 1) * 24

Years == BaseYear..(BaseYear + 2)

\* civil date of a day number
CivilOf(n) ==
  LET y == CHOOSE yy \in Years :
             DaysBeforeYear(yy) <= n /\ n < DaysBeforeYear(yy + 1)
      r == n - DaysBeforeYear(y)
      m == CHOOSE mm \in 0..11 :
             DaysBeforeMonth(y, mm) <= r /\ r < DaysBeforeMonth(y, mm) + DaysInMonth(y, mm)
  IN [year |-> y, month |-> m, date |-> r - DaysBeforeMonth(y, m) + 1]

\* the day the clock starts at: 15 January of BaseYear
StartDays == {MkDate(BaseYear, 0, 15) \div 24}

LastDay == Max(StartDays) + WindowDays

InWindow(n) == \E s \in StartDays : s <= n /\ n <= s + WindowDays

\* the days updateRelaxationDate is tried on (SpecCycle): BaseYear and on
CycleHorizon == 400

Calendar == [n \in 0..(Max({LastDay, CycleHorizon}) + 4 * 31) |-> CivilOf(n)]

getFullYear(t) == Calendar[t \div 24].year
getMonth(t) == Calendar[t \div 24].month
getDate(t) == Calendar[t \div 24].date

\* today.setHours(0, 0, 0, 0)
setHoursZero(t) == (t \div 24) * 24

formatDate(t) == <<getDate(t), getMonth(t), getFullYear(t)>>

\* --------------------------------------------------- the cycle calculator
\* shouldProcessIncome that takes a source that was never processed as due
\* on any day (sensitivity variant)
shouldProcessIncome_dueWhenNull(income, today) ==
  LET dayOfMonth == getDate(today) IN
  IF income.relaxationDate = NoDate THEN TRUE
  ELSE IF income.cycleDate # dayOfMonth THEN FALSE
  ELSE IF income.cycleType = "quarterly" THEN getMonth(today) \in validMonths
  ELSE IF income.cycleType = "yearly" THEN income.relaxationDate <= today
  ELSE TRUE

\* cronJobs.js shouldProcessIncome(income, today)
shouldProcessIncome(income, today) ==
  LET dayOfMonth == getDate(today) IN
  IF income.cycleDate # dayOfMonth THEN FALSE
  ELSE IF income.cycleType = "quarterly" THEN getMonth(today) \in validMonths
  ELSE IF income.cycleType = "yearly"
       THEN income.relaxationDate = NoDate \/ income.relaxationDate <= today
  ELSE TRUE

\* shouldProcessExpense without the quarter-month test (sensitivity variant)
shouldProcessExpense_anyMonth(expense, today) ==
  LET dayOfMonth == getDate(today) IN
  IF expense.cycleDate # dayOfMonth THEN FALSE
  ELSE IF expense.cycleType = "yearly"
       THEN expense.relaxationDate = NoDate \/ expense.relaxationDate <= today
  ELSE TRUE

\* shouldProcessExpense that ignores the day of the month for a source that
\* was never processed (sensitivity variant)
shouldProcessExpense_anyDayUntilProcessed(expense, today) ==
  LET dayOfMonth == getDate(today) IN
  IF expense.relaxationDate = NoDate THEN TRUE
  ELSE IF expense.cycleDate # dayOfMonth THEN FALSE
  ELSE IF expense.cycleType = "quarterly" THEN getMonth(today) \in validMonths
  ELSE IF expense.cycleType = "yearly" THEN expense.relaxationDate <= today
  ELSE TRUE

\* cronJobs.js shouldProcessExpense(expense, today)
shouldProcessExpense(expense, today) ==
  LET dayOfMonth == getDate(today) IN
  IF expense.cycleDate # dayOfMonth THEN FALSE
  ELSE IF expense.cycleType = "quarterly" THEN getMonth(today) \in validMonths
  ELSE IF expense.cycleType = "yearly"
       THEN expense.relaxationDate = NoDate \/ expense.relaxationDate <= today
  ELSE TRUE

\* updateRelaxationDate comparing with < where the method compares with <=
\* (sensitivity variant)
incomeUpdateRelaxationDate_strict(cycleType, cycleDate, now) ==
  LET year == getFullYear(now)
      month == getMonth(now)
      nextDate == MkDate(year, month, cycleDate)
      quarter == month \div 3
      qDate == MkDate(year, quarter * 3, cycleDate)
      yDate == MkDate(year, 0, cycleDate)
  IN CASE cycleType = "monthly" ->
            IF nextDate < now THEN MkDate(year, month + 1, cycleDate) ELSE nextDate
       [] cycleType = "quarterly" ->
            IF qDate < now THEN MkDate(year, (quarter + 1) * 3, cycleDate) ELSE qDate
       [] cycleType = "yearly" ->
            IF yDate < now THEN MkDate(year + 1, 0, cycleDate) ELSE yDate
       [] OTHER -> nextDate

\* updateRelaxationDate whose yearly branch stays in the current year
\* (sensitivity variant)
incomeUpdateRelaxationDate_thisYear(cycleType, cycleDate, now) ==
  LET year == getFullYear(now)
      month == getMonth(now)
      nextDate == MkDate(year, month, cycleDate)
      quarter == month \div 3
      qDate == MkDate(year, quarter * 3, cycleDate)
  IN CASE cycleType = "monthly" ->
            IF nextDate <= now THEN MkDate(year, month + 1, cycleDate) ELSE nextDate
       [] cycleType = "quarterly" ->
            IF qDate <= now THEN MkDate(year, (quarter + 1) * 3, cycleDate) ELSE qDate
       [] cycleType = "yearly" -> MkDate(year, 0, cycleDate)
       [] OTHER -> nextDate

\* incomeSchema.methods.updateRelaxationDate: the date it stores, `now` being
\* the value of new Date() inside the method
incomeUpdateRelaxationDate(cycleType, cycleDate, now) ==
  LET year == getFullYear(now)
      month == getMonth(now)
      nextDate == MkDate(year, month, cycleDate)
      quarter == month \div 3
      qDate == MkDate(year, quarter * 3, cycleDate)
      yDate == MkDate(year, 0, cycleDate)
  IN CASE cycleType = "monthly" ->
            IF nextDate <= now THEN MkDate(year, month + 1, cycleDate) ELSE nextDate
       [] cycleType = "quarterly" ->
            IF qDate <= now THEN MkDate(year, (quarter + 1) * 3, cycleDate) ELSE qDate
       [] cycleType = "yearly" ->
            IF yDate <= now THEN MkDate(year + 1, 0, cycleDate) ELSE yDate
       [] OTHER -> nextDate

\* updateRelaxationDate that never moves on to the following period
\* (sensitivity variant)
expenseUpdateRelaxationDate_samePeriod(cycleType, cycleDate, now) ==
  LET year == getFullYear(now)
      month == getMonth(now)
      quarter == month \div 3
  IN CASE cycleType = "monthly" -> MkDate(year, month, cycleDate)
       [] cycleType = "quarterly" -> MkDate(year, quarter * 3, cycleDate)
       [] cycleType = "yearly" -> MkDate(year, 0, cycleDate)
       [] OTHER -> MkDate(year, month, cycleDate)

\* expenseSchema.methods.updateRelaxationDate
expenseUpdateRelaxationDate(cycleType, cycleDate, now) ==
  LET year == getFullYear(now)
      month == getMonth(now)
      nextDate == MkDate(year, month, cycleDate)
      quarter == month \div 3
      qDate == MkDate(year, quarter * 3, cycleDate)
      yDate == MkDate(year, 0, cycleDate)
  IN CASE cycleType = "monthly" ->
            IF nextDate <= now THEN MkDate(year, month + 1, cycleDate) ELSE nextDate
       [] cycleType = "quarterly" ->
            IF qDate <= now THEN MkDate(year, (quarter + 1) * 3, cycleDate) ELSE qDate
       [] cycleType = "yearly" ->
            IF yDate <= now THEN MkDate(year + 1, 0, cycleDate) ELSE yDate
       [] OTHER -> nextDate

\* ------------------------------------------------------------------- state
VARIABLES
  day,            \* the calendar day (days since 1 January BaseYear)
  wallets,        \* UserWallet collection: id -> document
  incomes,        \* Income collection: id -> document
  expenses,       \* Expense collection: id -> document
  transactions,   \* Transaction collection: a set of documents
  nextTxId,       \* the next Transaction _id
  incomeRun,      \* the checkIncomeSources callback in progress, if any
  expenseRun,     \* the checkExpenseSources callback in progress, if any
  faultsLeft,     \* persistence rejections still to come
  cyc,            \* one updateRelaxationDate call: its inputs and its result
  insufficientLog, \* the "Insufficient balance" warnings logged: <<expense id, day>>
  ops,            \* the debit operations in flight, each between two awaits
  users           \* User collection: id -> document (its roles array)

vars == <<day, wallets, incomes, expenses, transactions, nextTxId,
          incomeRun, expenseRun, faultsLeft, cyc, insufficientLog, ops, users>>

\* a User collection nobody has registered in
NoUsers == <<>>

\* an operation slot nobody is using
NoOp == [kind |-> "none", pc |-> "done", walletId |-> 0, amount |-> 0,
         transactionType |-> "none", expenseId |-> 0, seen |-> Undefined,
         txId |-> 0]
NoOps == [p \in 1..MaxOps |-> NoOp]

\* the database as one value, for the operators that transform it
DB == [wallets |-> wallets, incomes |-> incomes, expenses |-> expenses,
       transactions |-> transactions, nextTxId |-> nextTxId]

\* new Date() at the cron's hour of the day
NowOf(d) == d * 24 + CronHour
TodayOf(d) == setHoursZero(NowOf(d))

\* Transaction.create(data)
TransactionCreate(d, walletId, title, amount, transactionType, transactionDate) ==
  [d EXCEPT !.transactions = @ \cup
              {[id |-> d.nextTxId, walletId |-> walletId, title |-> title,
                amount |-> amount, transactionType |-> transactionType,
                transactionDate |-> transactionDate, isDeleted |-> FALSE,
                deletedAt |-> NoDate]},
            !.nextTxId = @ + 1]

\* findByIdAndDelete leaving the document in place (sensitivity variant)
TransactionDelete_keeps(d, id) == d

\* Transaction.findByIdAndDelete(id)
TransactionDelete(d, id) ==
  [d EXCEPT !.transactions = {t \in @ : t.id # id}]

\* UserWallet.findByIdAndUpdate(id, {$inc: {currentAmount: delta}}): no
\* document matching the id leaves the collection as it is
WalletInc(d, walletId, delta) ==
  IF walletId \in DOMAIN d.wallets
  THEN [d EXCEPT !.wallets[walletId].currentAmount = @ + delta]
  ELSE d

\* a step's result: the database it leaves, whether it threw, what it returned
Res(d, threw, ret) == [db |-> d, threw |-> threw, ret |-> ret]

\* processIncomeSource without the wallet $inc (sensitivity variant)
processIncomeSource_noInc(income, now, d, fault) ==
  LET title == <<"Added Income for", income.name, formatDate(now)>>
      d1 == TransactionCreate(d, income.walletId, title, income.amount, "income", now)
      d3 == [d1 EXCEPT !.incomes[income.id].relaxationDate =
                 incomeUpdateRelaxationDate(income.cycleType, income.cycleDate, now)]
  IN IF income.walletId \notin DOMAIN d.wallets THEN Res(d, TRUE, 0)
     ELSE IF fault = 1 THEN Res(d, TRUE, 0)
     ELSE IF fault \in {2, 3} THEN Res(d1, TRUE, 0)
     ELSE Res(d3, FALSE, d.nextTxId)

\* processIncomeSource on the raw wallet id, as if walletId were not
\* populated (sensitivity variant)
processIncomeSource_unpopulated(income, now, d, fault) ==
  LET title == <<"Added Income for", income.name, formatDate(now)>>
      d1 == TransactionCreate(d, income.walletId, title, income.amount, "income", now)
      d2 == WalletInc(d1, income.walletId, income.amount)
      d3 == [d2 EXCEPT !.incomes[income.id].relaxationDate =
                 incomeUpdateRelaxationDate(income.cycleType, income.cycleDate, now)]
  IN IF fault = 1 THEN Res(d, TRUE, 0)
     ELSE IF fault = 2 THEN Res(d1, TRUE, 0)
     ELSE IF fault = 3 THEN Res(d2, TRUE, 0)
     ELSE Res(d3, FALSE, d.nextTxId)

\* cronJobs.js processIncomeSource(income); fault = k > 0 makes the k-th
\* awaited persistence call reject. A wallet id that resolves to no document
\* leaves the populated walletId null: income.walletId._id (line 77) throws
\* before Transaction.create is called.
processIncomeSource(income, now, d, fault) ==
  LET title == <<"Added Income for", income.name, formatDate(now)>>
      d1 == TransactionCreate(d, income.walletId, title, income.amount, "income", now)
      d2 == WalletInc(d1, income.walletId, income.amount)
      d3 == [d2 EXCEPT !.incomes[income.id].relaxationDate =
                 incomeUpdateRelaxationDate(income.cycleType, income.cycleDate, now)]
  IN IF income.walletId \notin DOMAIN d.wallets THEN Res(d, TRUE, 0)
     ELSE IF fault = 1 THEN Res(d, TRUE, 0)
     ELSE IF fault = 2 THEN Res(d1, TRUE, 0)
     ELSE IF fault = 3 THEN Res(d2, TRUE, 0)
     ELSE Res(d3, FALSE, d.nextTxId)

\* processExpenseSource advancing relaxationDate when the balance is too low
\* (sensitivity variant)
processExpenseSource_advanceOnInsufficient(expense, now, d, fault) ==
  LET title == <<"Added Expense for", expense.name, formatDate(now)>>
      d1 == TransactionCreate(d, expense.walletId, title, expense.amount, "expense", now)
      d2 == WalletInc(d1, expense.walletId, -expense.amount)
      d3 == [d2 EXCEPT !.expenses[expense.id].relaxationDate =
                 expenseUpdateRelaxationDate(expense.cycleType, expense.cycleDate, now)]
  IN IF expense.walletId \notin DOMAIN d.wallets THEN Res(d, TRUE, 0)
     ELSE IF fault = 1 THEN Res(d, TRUE, 0)
     ELSE IF d.wallets[expense.walletId].currentAmount < expense.amount
          THEN Res([d EXCEPT !.expenses[expense.id].relaxationDate =
                      expenseUpdateRelaxationDate(expense.cycleType,
                                                  expense.cycleDate, now)],
                   FALSE, 0)
     ELSE IF fault = 2 THEN Res(d, TRUE, 0)
     ELSE IF fault = 3 THEN Res(d1, TRUE, 0)
     ELSE IF fault = 4 THEN Res(d2, TRUE, 0)
     ELSE Res(d3, FALSE, d.nextTxId)

\* cronJobs.js processExpenseSource(expense): returns the transaction, or
\* null (0) when the balance is too low. The callback hands it documents with
\* walletId populated: a wallet id that resolves to no document leaves
\* walletId null, and expense.walletId._id (line 110) throws before any call.
processExpenseSource(expense, now, d, fault) ==
  LET title == <<"Added Expense for", expense.name, formatDate(now)>>
      d1 == TransactionCreate(d, expense.walletId, title, expense.amount, "expense", now)
      d2 == WalletInc(d1, expense.walletId, -expense.amount)
      d3 == [d2 EXCEPT !.expenses[expense.id].relaxationDate =
                 expenseUpdateRelaxationDate(expense.cycleType, expense.cycleDate, now)]
  IN IF expense.walletId \notin DOMAIN d.wallets THEN Res(d, TRUE, 0)
     ELSE IF fault = 1 THEN Res(d, TRUE, 0)
     ELSE IF d.wallets[expense.walletId].currentAmount < expense.amount
          THEN Res(d, FALSE, 0)
     ELSE IF fault = 2 THEN Res(d, TRUE, 0)
     ELSE IF fault = 3 THEN Res(d1, TRUE, 0)
     ELSE IF fault = 4 THEN Res(d2, TRUE, 0)
     ELSE Res(d3, FALSE, d.nextTxId)

\* ------------------------------------------------------- the batch driver
Idle == [phase |-> "idle", today |-> 0, queue |-> <<>>, selected |-> {},
         attempted |-> {}, processedCount |-> 0, skippedCount |-> 0,
         insufficientFundsCount |-> 0]

NoRun == incomeRun.phase = "idle" /\ expenseRun.phase = "idle"

\* Model.find({isDeleted: false}): the documents, in _id order
RECURSIVE DocsInOrder(_, _)
DocsInOrder(coll, ids) ==
  IF ids = {} THEN <<>>
  ELSE LET i == Min(ids) IN <<coll[i]>> \o DocsInOrder(coll, ids \ {i})

\* find() without the isDeleted filter (sensitivity variant)
FindActive_noFilter(coll) == DocsInOrder(coll, DOMAIN coll)

\* Income.find({isDeleted: false}), Expense.find({isDeleted: false})
FindActive(coll) == DocsInOrder(coll, {i \in DOMAIN coll : ~coll[i].isDeleted})

\* a fault is drawn only while the budget lasts
FaultOK(fault) == fault = 0 \/ faultsLeft > 0
Spend(fault) == IF fault = 0 THEN faultsLeft ELSE faultsLeft - 1

SetDB(d) ==
  /\ wallets' = d.wallets
  /\ incomes' = d.incomes
  /\ expenses' = d.expenses
  /\ transactions' = d.transactions
  /\ nextTxId' = d.nextTxId

\* checkIncomeSources, lines 159-170: today, Income.find
IncomeRunStart ==
  /\ NoRun
  /\ \E fault \in 0..1 :
       /\ FaultOK(fault)
       /\ faultsLeft' = Spend(fault)
       /\ IF fault = 1
          THEN incomeRun' = Idle
          ELSE incomeRun' = [Idle EXCEPT !.phase = "loop",
                                   !.today = TodayOf(day),
                                   !.queue = FindActive(incomes),
                                   !.selected = {i \in DOMAIN incomes : ~incomes[i].isDeleted}]
  /\ UNCHANGED <<ops, insufficientLog, day, wallets, incomes, expenses, transactions, nextTxId, expenseRun, cyc, users>>

\* loop body that gives up the rest of the run when a source throws
\* (sensitivity variant)
incomeLoopBody_abortOnFailure(run, income, now, d, fault) ==
  IF ~shouldProcessIncome(income, run.today)
  THEN [run |-> [run EXCEPT !.queue = Tail(@), !.attempted = @ \cup {income.id},
                            !.skippedCount = @ + 1],
        db |-> d, outcome |-> "skipped"]
  ELSE LET r == processIncomeSource(income, now, d, fault) IN
       IF r.threw
       THEN [run |-> [run EXCEPT !.queue = <<>>, !.attempted = @ \cup {income.id}],
             db |-> r.db, outcome |-> "failed"]
       ELSE [run |-> [run EXCEPT !.queue = Tail(@), !.attempted = @ \cup {income.id},
                                 !.processedCount = @ + 1],
             db |-> r.db, outcome |-> "processed"]

\* one iteration of the for loop of checkIncomeSources, lines 173-190
incomeLoopBody(run, income, now, d, fault) ==
  IF ~shouldProcessIncome(income, run.today)
  THEN [run |-> [run EXCEPT !.queue = Tail(@), !.attempted = @ \cup {income.id},
                            !.skippedCount = @ + 1],
        db |-> d, outcome |-> "skipped"]
  ELSE LET r == processIncomeSource(income, now, d, fault) IN
       IF r.threw
       THEN [run |-> [run EXCEPT !.queue = Tail(@), !.attempted = @ \cup {income.id}],
             db |-> r.db, outcome |-> "failed"]
       ELSE [run |-> [run EXCEPT !.queue = Tail(@), !.attempted = @ \cup {income.id},
                                 !.processedCount = @ + 1],
             db |-> r.db, outcome |-> "processed"]

IncomeRunStep ==
  /\ incomeRun.phase = "loop"
  /\ incomeRun.queue # <<>>
  /\ LET income == Head(incomeRun.queue)
         due == shouldProcessIncome(income, incomeRun.today)
     IN /\ due => nextTxId <= MaxTx
        /\ \E fault \in 0..3 :
             /\ FaultOK(fault)
             /\ fault > 0 => due /\ income.walletId \in DOMAIN wallets
             /\ LET b == incomeLoopBody(incomeRun, income, NowOf(day), DB, fault)
                IN /\ incomeRun' = b.run
                   /\ SetDB(b.db)
             /\ faultsLeft' = Spend(fault)
  /\ UNCHANGED <<ops, insufficientLog, day, expenseRun, cyc, users>>

\* checkIncomeSources, lines 192-194: the loop is over, the totals are logged
IncomeRunEnd ==
  /\ incomeRun.phase = "loop"
  /\ incomeRun.queue = <<>>
  /\ incomeRun' = Idle
  /\ UNCHANGED <<ops, insufficientLog, day, wallets, incomes, expenses, transactions, nextTxId,
                 expenseRun, faultsLeft, cyc, users>>

\* checkExpenseSources, lines 205-218
ExpenseRunStart ==
  /\ NoRun
  /\ \E fault \in 0..1 :
       /\ FaultOK(fault)
       /\ faultsLeft' = Spend(fault)
       /\ IF fault = 1
          THEN expenseRun' = Idle
          ELSE expenseRun' = [Idle EXCEPT !.phase = "loop",
                                    !.today = TodayOf(day),
                                    !.queue = FindActive(expenses),
                                    !.selected = {i \in DOMAIN expenses : ~expenses[i].isDeleted}]
  /\ UNCHANGED <<ops, insufficientLog, day, wallets, incomes, expenses, transactions, nextTxId, incomeRun, cyc, users>>

\* one iteration of the for loop of checkExpenseSources, lines 220-241
expenseLoopBody(run, expense, now, d, fault) ==
  IF ~shouldProcessExpense(expense, run.today)
  THEN [run |-> [run EXCEPT !.queue = Tail(@), !.attempted = @ \cup {expense.id},
                            !.skippedCount = @ + 1],
        db |-> d, outcome |-> "skipped"]
  ELSE LET r == processExpenseSource(expense, now, d, fault) IN
       IF r.threw
       THEN [run |-> [run EXCEPT !.queue = Tail(@), !.attempted = @ \cup {expense.id}],
             db |-> r.db, outcome |-> "failed"]
       ELSE IF r.ret # 0
       THEN [run |-> [run EXCEPT !.queue = Tail(@), !.attempted = @ \cup {expense.id},
                                 !.processedCount = @ + 1],
             db |-> r.db, outcome |-> "processed"]
       ELSE [run |-> [run EXCEPT !.queue = Tail(@), !.attempted = @ \cup {expense.id},
                                 !.insufficientFundsCount = @ + 1],
             db |-> r.db, outcome |-> "insufficient"]

\* the persistence calls processExpenseSource makes before it returns
expenseCalls(expense, d) ==
  IF expense.walletId \notin DOMAIN d.wallets THEN 0
  ELSE IF d.wallets[expense.walletId].currentAmount < expense.amount THEN 1
  ELSE 4

\* processExpenseSource, lines 118-121: the warning logged when the wallet
\* holds less than the amount
warn(log, expense, d, today, fault) ==
  IF /\ fault # 1
     /\ expense.walletId \in DOMAIN d.wallets
     /\ d.wallets[expense.walletId].currentAmount < expense.amount
  THEN log \cup {<<expense.id, today>>}
  ELSE log

ExpenseRunStep ==
  /\ expenseRun.phase = "loop"
  /\ expenseRun.queue # <<>>
  /\ LET expense == Head(expenseRun.queue)
         due == shouldProcessExpense(expense, expenseRun.today)
     IN /\ due => nextTxId <= MaxTx
        /\ \E fault \in 0..4 :
             /\ FaultOK(fault)
             /\ fault > 0 => due /\ fault <= expenseCalls(expense, DB)
             /\ LET b == expenseLoopBody(expenseRun, expense, NowOf(day), DB, fault)
                IN /\ expenseRun' = b.run
                   /\ SetDB(b.db)
             /\ insufficientLog' = IF due THEN warn(insufficientLog, expense, DB, day, fault)
                                         ELSE insufficientLog
             /\ faultsLeft' = Spend(fault)
  /\ UNCHANGED <<ops, day, incomeRun, cyc, users>>

\* checkExpenseSources, lines 243-245
ExpenseRunEnd ==
  /\ expenseRun.phase = "loop"
  /\ expenseRun.queue = <<>>
  /\ expenseRun' = Idle
  /\ UNCHANGED <<ops, insufficientLog, day, wallets, incomes, expenses, transactions, nextTxId,
                 incomeRun, faultsLeft, cyc, users>>

\* ------------------------------------------------------- the HTTP handlers
\* reading a property of a document: undefined when the document has none
Get(doc, field) == IF field \in DOMAIN doc THEN doc[field] ELSE Undefined

\* a < b in JavaScript, for a number b: false when a is undefined
JsLess(a, b) == IF a = Undefined THEN FALSE ELSE a < b

\* the paths of userWalletSchema this model keeps; save() writes no other
WalletPaths == {"id", "initialAmount", "currentAmount", "isDeleted", "isDefault"}

\* wallet.balance = value; await wallet.save(): `balance` is no path of the
\* schema, so the assignment stays on the object in memory
WalletSetAndSave(d, wallet, field, value) ==
  LET doc == [f \in DOMAIN wallet \cup {field} |->
                IF f = field THEN value ELSE wallet[f]]
  IN [d EXCEPT !.wallets[wallet.id] = [f \in WalletPaths |-> doc[f]]]

\* UserWallet.findOne({_id, userId, isDeleted: false})
WalletFound(d, walletId) ==
  walletId \in DOMAIN d.wallets /\ ~d.wallets[walletId].isDeleted

NewId(coll) == IF DOMAIN coll = {} THEN 1 ELSE Max(DOMAIN coll) + 1

Reply(d, status) == [db |-> d, status |-> status]

\* the name a request gives its source: every source of a collection is
\* named differently, so that a Transaction title names one source
SourceName(coll) == NewId(coll)

\* POST /api/transactions without the balance test (sensitivity variant)
postTransaction_noBalanceCheck(d, now, walletId, amount, transactionType, fault) ==
  LET d1 == TransactionCreate(d, walletId, <<"manual", "t", <<>>>>, amount,
                              transactionType, now)
  IN IF fault = 1 THEN Reply(d, "500")
     ELSE IF ~WalletFound(d, walletId) THEN Reply(d, "404")
     ELSE IF fault = 2 THEN Reply(d, "500")
     ELSE IF fault = 3 THEN Reply(d1, "500")
     ELSE IF transactionType = "income"
          THEN Reply(WalletInc(d1, walletId, amount), "201")
     ELSE Reply(WalletInc(d1, walletId, -amount), "201")

\* POST /api/transactions, lines 48-127
postTransaction(d, now, walletId, amount, transactionType, fault) ==
  LET wallet == d.wallets[walletId]
      d1 == TransactionCreate(d, walletId, <<"manual", "t", <<>>>>, amount,
                              transactionType, now)
  IN IF fault = 1 THEN Reply(d, "500")
     ELSE IF ~WalletFound(d, walletId) THEN Reply(d, "404")
     ELSE IF fault = 2 THEN Reply(d, "500")
     ELSE IF transactionType = "income"
          THEN IF fault = 3 THEN Reply(d1, "500")
               ELSE Reply(WalletInc(d1, walletId, amount), "201")
     ELSE IF wallet.currentAmount < amount
          THEN IF fault = 3 THEN Reply(d1, "500")
               ELSE Reply(TransactionDelete(d1, d.nextTxId), "400")
     ELSE IF fault = 3 THEN Reply(d1, "500")
     ELSE Reply(WalletInc(d1, walletId, -amount), "201")

PostTransaction ==
  /\ NoRun
  /\ nextTxId <= MaxTx
  /\ \E walletId \in WalletIds, amount \in Amounts,
        transactionType \in {"income", "expense"}, fault \in 0..3 :
       /\ FaultOK(fault)
       /\ LET r == postTransaction(DB, NowOf(day), walletId, amount,
                                   transactionType, fault)
          IN /\ SetDB(r.db)
       /\ faultsLeft' = Spend(fault)
  /\ UNCHANGED <<ops, insufficientLog, day, incomeRun, expenseRun, cyc, users>>

\* expenseSchema: the required paths
ExpenseValid(data) ==
  /\ data.amount >= 0
  /\ data.isFixedExpense => data.cycleDate \in 1..31 /\ data.cycleType \in CycleTypes
  /\ ~data.isFixedExpense => data.entryDate # NoDate

\* POST /api/expenses, lines 51-128
postExpense(d, now, walletId, name, amount, isFixedExpense, cycleDate, cycleType, fault) ==
  LET wallet == d.wallets[walletId]
      id == NewId(d.expenses)
      expenseData ==
        [id |-> id, walletId |-> walletId, name |-> name, amount |-> amount,
         isFixedExpense |-> isFixedExpense,
         cycleDate |-> IF isFixedExpense THEN cycleDate ELSE NoDay,
         cycleType |-> IF isFixedExpense THEN cycleType ELSE NoType,
         entryDate |-> IF isFixedExpense THEN NoDate ELSE now,
         relaxationDate |-> NoDate, isDeleted |-> FALSE,
         deletedAt |-> NoDate]
      d1 == [d EXCEPT !.expenses = (id :> expenseData) @@ @]
      d2 == TransactionCreate(d1, walletId, <<"Expense:", name, <<>>>>, amount,
                              "expense", expenseData.entryDate)
      d3 == WalletSetAndSave(d2, wallet, "balance",
                             IF Get(wallet, "balance") = Undefined THEN Undefined
                             ELSE Get(wallet, "balance") - amount)
  IN IF fault = 1 THEN Reply(d, "500")
     ELSE IF ~WalletFound(d, walletId) THEN Reply(d, "404")
     ELSE IF fault = 2 \/ ~ExpenseValid(expenseData) THEN Reply(d, "500")
     ELSE IF isFixedExpense THEN Reply(d1, "201")
     ELSE IF JsLess(Get(wallet, "balance"), amount)
          THEN IF fault = 3 THEN Reply(d1, "500")
               ELSE Reply([d EXCEPT !.expenses = [i \in DOMAIN d.expenses |-> d.expenses[i]]], "400")
     ELSE IF fault = 3 THEN Reply(d1, "500")
     ELSE IF fault = 4 THEN Reply(d2, "500")
     ELSE Reply(d3, "201")

PostExpense ==
  /\ NoRun
  /\ Cardinality(DOMAIN incomes) + Cardinality(DOMAIN expenses) < MaxSources
  /\ nextTxId <= MaxTx
  /\ \E walletId \in WalletIds, amount \in Amounts,
        isFixedExpense \in BOOLEAN, cycleDate \in CycleDays,
        cycleType \in CycleTypes, fault \in 0..4 :
       /\ FaultOK(fault)
       /\ fault > 2 => ~isFixedExpense
       /\ ~isFixedExpense => cycleType = "monthly"
       /\ LET r == postExpense(DB, NowOf(day), walletId, SourceName(expenses), amount,
                               isFixedExpense, cycleDate, cycleType, fault)
          IN /\ SetDB(r.db)
       /\ faultsLeft' = Spend(fault)
  /\ UNCHANGED <<ops, insufficientLog, day, incomeRun, expenseRun, cyc, users>>

\* incomeSchema: cycleDate and cycleType are required; the schema has no
\* isFixedIncome and no entryDate path, so create() drops them
IncomeValid(data) ==
  /\ data.amount >= 0
  /\ data.cycleDate \in 1..31
  /\ data.cycleType \in CycleTypes

\* POST /api/incomes, lines 51-119
postIncome(d, now, walletId, name, amount, isFixedIncome, cycleDate, cycleType, fault) ==
  LET wallet == d.wallets[walletId]
      id == NewId(d.incomes)
      incomeData ==
        [id |-> id, walletId |-> walletId, name |-> name, amount |-> amount,
         cycleDate |-> IF isFixedIncome THEN cycleDate ELSE NoDay,
         cycleType |-> IF isFixedIncome THEN cycleType ELSE NoType,
         relaxationDate |-> NoDate, isDeleted |-> FALSE,
         deletedAt |-> NoDate]
      d1 == [d EXCEPT !.incomes = (id :> incomeData) @@ @]
      d2 == TransactionCreate(d1, walletId, <<"Income:", name, <<>>>>, amount,
                              "income", now)
      d3 == WalletSetAndSave(d2, wallet, "balance",
                             IF Get(wallet, "balance") = Undefined THEN Undefined
                             ELSE Get(wallet, "balance") + amount)
  IN IF fault = 1 THEN Reply(d, "500")
     ELSE IF ~WalletFound(d, walletId) THEN Reply(d, "404")
     ELSE IF fault = 2 \/ ~IncomeValid(incomeData) THEN Reply(d, "500")
     ELSE IF isFixedIncome THEN Reply(d1, "201")
     ELSE IF fault = 3 THEN Reply(d1, "500")
     ELSE IF fault = 4 THEN Reply(d2, "500")
     ELSE Reply(d3, "201")

PostIncome ==
  /\ NoRun
  /\ Cardinality(DOMAIN incomes) + Cardinality(DOMAIN expenses) < MaxSources
  /\ \E walletId \in WalletIds, amount \in Amounts,
        isFixedIncome \in BOOLEAN, cycleDate \in CycleDays,
        cycleType \in CycleTypes, fault \in 0..2 :
       /\ FaultOK(fault)
       /\ ~isFixedIncome => cycleType = "monthly"
       /\ LET r == postIncome(DB, NowOf(day), walletId, SourceName(incomes), amount,
                              isFixedIncome, cycleDate, cycleType, fault)
          IN /\ SetDB(r.db)
       /\ faultsLeft' = Spend(fault)
  /\ UNCHANGED <<ops, insufficientLog, day, incomeRun, expenseRun, cyc, users>>

\* ------------------------------------------------------------- the clock
Observed(n) == getDate(n * 24) \in ObservedDays

\* the next day the model looks at the system
NextDay(n) == Min({m \in (n + 1)..(n + 31) : Observed(m)})

Tick ==
  /\ NoRun
  /\ InWindow(NextDay(day))
  /\ day' = NextDay(day)
  /\ UNCHANGED <<ops, insufficientLog, wallets, incomes, expenses, transactions, nextTxId,
                 incomeRun, expenseRun, faultsLeft, cyc, users>>

NoCycle == [kind |-> NoType, cycleType |-> NoType, cycleDate |-> NoDay, now |-> 0,
            result |-> NoDate]

Init ==
  /\ day \in StartDays
  /\ \E a \in 0..MaxInitAmount :
       wallets = [w \in WalletIds |->
                    [id |-> w, initialAmount |-> a, currentAmount |-> a,
                     isDeleted |-> FALSE, isDefault |-> FALSE]]
  /\ incomes = <<>>
  /\ expenses = <<>>
  /\ transactions = {}
  /\ nextTxId = 1
  /\ incomeRun = Idle
  /\ expenseRun = Idle
  /\ faultsLeft = MaxFaults
  /\ insufficientLog = {}
  /\ ops = NoOps
  /\ cyc = NoCycle
  /\ users = NoUsers

\* ------------------------------------ the batch over existing sources
EmptyDB(a) ==
  [wallets |-> [w \in WalletIds |->
                  [id |-> w, initialAmount |-> a, currentAmount |-> a,
                   isDeleted |-> FALSE, isDefault |-> FALSE]],
   incomes |-> <<>>, expenses |-> <<>>, transactions |-> {}, nextTxId |-> 1]

\* the databases n accepted requests for fixed sources lead to from d
RECURSIVE CreatedFrom(_, _, _)
CreatedFrom(d, now, n) ==
  IF n = 0 THEN {d}
  ELSE UNION {
         {postIncome(e, now, w, SourceName(e.incomes), a, TRUE, cd, ct, 0).db :
            w \in WalletIds, a \in Amounts, cd \in CycleDays, ct \in CycleTypes}
         \cup
         {postExpense(e, now, w, SourceName(e.expenses), a, TRUE, cd, ct, 0).db :
            w \in WalletIds, a \in Amounts, cd \in CycleDays, ct \in CycleTypes}
         : e \in CreatedFrom(d, now, n - 1)}

InitBatch ==
  /\ day \in StartDays
  /\ \E a \in 0..MaxInitAmount :
       \E d \in CreatedFrom(EmptyDB(a), NowOf(day), BatchSources) :
         /\ wallets = d.wallets
         /\ incomes = d.incomes
         /\ expenses = d.expenses
         /\ transactions = d.transactions
         /\ nextTxId = d.nextTxId
  /\ incomeRun = Idle
  /\ expenseRun = Idle
  /\ faultsLeft = MaxFaults
  /\ insufficientLog = {}
  /\ ops = NoOps
  /\ cyc = NoCycle
  /\ users = NoUsers

NextBatch ==
  \/ Tick
  \/ IncomeRunStart
  \/ IncomeRunStep
  \/ IncomeRunEnd
  \/ ExpenseRunStart
  \/ ExpenseRunStep
  \/ ExpenseRunEnd

SpecBatch == InitBatch /\ [][NextBatch]_vars

\* -------------------------------------------- soft delete of a source
\* schema method softDelete(): isDeleted = true, deletedAt = new Date(), save()
softDelete(doc, now) == [doc EXCEPT !.isDeleted = TRUE, !.deletedAt = now]

\* DELETE /api/incomes/:id
deleteIncome(d, now, id, fault) ==
  IF fault = 1 THEN Reply(d, "500")
  ELSE IF id \notin DOMAIN d.incomes \/ d.incomes[id].isDeleted THEN Reply(d, "404")
  ELSE IF fault = 2 THEN Reply(d, "500")
  ELSE Reply([d EXCEPT !.incomes[id] = softDelete(@, now)], "200")

\* DELETE /api/expenses/:id
deleteExpense(d, now, id, fault) ==
  IF fault = 1 THEN Reply(d, "500")
  ELSE IF id \notin DOMAIN d.expenses \/ d.expenses[id].isDeleted THEN Reply(d, "404")
  ELSE IF fault = 2 THEN Reply(d, "500")
  ELSE Reply([d EXCEPT !.expenses[id] = softDelete(@, now)], "200")

DeleteIncome ==
  /\ NoRun
  /\ \E id \in 1..BatchSources, fault \in 0..2 :
       /\ FaultOK(fault)
       /\ SetDB(deleteIncome(DB, NowOf(day), id, fault).db)
       /\ faultsLeft' = Spend(fault)
  /\ UNCHANGED <<ops, insufficientLog, day, incomeRun, expenseRun, cyc, users>>

DeleteExpense ==
  /\ NoRun
  /\ \E id \in 1..BatchSources, fault \in 0..2 :
       /\ FaultOK(fault)
       /\ SetDB(deleteExpense(DB, NowOf(day), id, fault).db)
       /\ faultsLeft' = Spend(fault)
  /\ UNCHANGED <<ops, insufficientLog, day, incomeRun, expenseRun, cyc, users>>

NextLifecycle ==
  \/ NextBatch
  \/ DeleteIncome
  \/ DeleteExpense

SpecLifecycle == InitBatch /\ [][NextLifecycle]_vars

\* --------------------------------- a skipped expense on the days after
\* the schedule fires again the next morning; the model follows the source
\* to the day after one of its cycle days
NextMorning ==
  /\ NoRun
  /\ getDate(NowOf(day)) \in CycleDays
  /\ InWindow(day + 1)
  /\ day' = day + 1
  /\ UNCHANGED <<ops, insufficientLog, wallets, incomes, expenses, transactions,
                 nextTxId, incomeRun, expenseRun, faultsLeft, cyc, users>>

\* one fixed expense exists when the schedule first fires
InitRetry ==
  /\ day \in StartDays
  /\ \E a \in 0..MaxInitAmount :
       \E d \in CreatedFrom(EmptyDB(a), NowOf(day), 1) :
         /\ d.expenses # <<>>
         /\ wallets = d.wallets
         /\ incomes = d.incomes
         /\ expenses = d.expenses
         /\ transactions = d.transactions
         /\ nextTxId = d.nextTxId
  /\ incomeRun = Idle
  /\ expenseRun = Idle
  /\ faultsLeft = MaxFaults
  /\ insufficientLog = {}
  /\ ops = NoOps
  /\ cyc = NoCycle
  /\ users = NoUsers

NextRetry ==
  \/ Tick
  \/ NextMorning
  \/ ExpenseRunStart
  \/ ExpenseRunStep
  \/ ExpenseRunEnd
  \/ PostTransaction

SpecRetry == InitRetry /\ [][NextRetry]_vars

\* ------------------------------------------- the schedule over a year
\* a callback that has done its find() and is about to loop
Started(coll, today) ==
  [Idle EXCEPT !.phase = "loop", !.today = today, !.queue = FindActive(coll),
               !.selected = {i \in DOMAIN coll : ~coll[i].isDeleted}]

\* 09:00 of the next day the model looks at: both callbacks fire
Morning ==
  /\ NoRun
  /\ NextDay(day) <= Max(StartDays) + YearDays
  /\ day' = NextDay(day)
  /\ incomeRun' = Started(incomes, TodayOf(NextDay(day)))
  /\ expenseRun' = Started(expenses, TodayOf(NextDay(day)))
  /\ UNCHANGED <<ops, insufficientLog, wallets, incomes, expenses, transactions,
                 nextTxId, faultsLeft, cyc, users>>

NextYearly ==
  \/ Morning
  \/ IncomeRunStart
  \/ IncomeRunStep
  \/ IncomeRunEnd
  \/ ExpenseRunStart
  \/ ExpenseRunStep
  \/ ExpenseRunEnd
  \/ PostIncome
  \/ PostExpense

SpecYearly == Init /\ [][NextYearly]_vars

\* ------------------------------------- updateRelaxationDate on its own
\* the instants new Date() is drawn from: midnight and the cron's hour
CycleInputs ==
  [kind : {"income", "expense"}, cycleType : CycleTypes, cycleDate : 1..31,
   now : {n * 24 + h : n \in 0..CycleHorizon, h \in {0, CronHour}},
   result : {NoDate}]

InitCycle ==
  /\ cyc \in CycleInputs
  /\ users = NoUsers
  /\ day = Min(StartDays)
  /\ wallets = [w \in WalletIds |->
                  [id |-> w, initialAmount |-> 0, currentAmount |-> 0,
                   isDeleted |-> FALSE, isDefault |-> FALSE]]
  /\ incomes = <<>>
  /\ expenses = <<>>
  /\ transactions = {}
  /\ nextTxId = 1
  /\ incomeRun = Idle
  /\ expenseRun = Idle
  /\ faultsLeft = 0
  /\ insufficientLog = {}
  /\ ops = NoOps

IncomeUpdateRelaxationDate ==
  /\ cyc.kind = "income"
  /\ cyc.result = NoDate
  /\ cyc' = [cyc EXCEPT !.result =
                incomeUpdateRelaxationDate(cyc.cycleType, cyc.cycleDate, cyc.now)]
  /\ UNCHANGED <<ops, insufficientLog, day, wallets, incomes, expenses, transactions, nextTxId,
                 incomeRun, expenseRun, faultsLeft, users>>

ExpenseUpdateRelaxationDate ==
  /\ cyc.kind = "expense"
  /\ cyc.result = NoDate
  /\ cyc' = [cyc EXCEPT !.result =
                expenseUpdateRelaxationDate(cyc.cycleType, cyc.cycleDate, cyc.now)]
  /\ UNCHANGED <<ops, insufficientLog, day, wallets, incomes, expenses, transactions, nextTxId,
                 incomeRun, expenseRun, faultsLeft, users>>

NextCycle == IncomeUpdateRelaxationDate \/ ExpenseUpdateRelaxationDate

SpecCycle == InitCycle /\ [][NextCycle]_vars

Next ==
  \/ Tick
  \/ IncomeRunStart
  \/ IncomeRunStep
  \/ IncomeRunEnd
  \/ ExpenseRunStart
  \/ ExpenseRunStep
  \/ ExpenseRunEnd
  \/ PostTransaction
  \/ PostExpense
  \/ PostIncome

Spec == Init /\ [][Next]_vars

\* ------------------------------------------------------------- properties
\* what a step did, read off the two states of the step
IncomeStepTaken ==
  /\ incomeRun.phase = "loop" /\ incomeRun.queue # <<>>
  /\ incomeRun'.phase = "loop" /\ incomeRun'.queue = Tail(incomeRun.queue)

ExpenseStepTaken ==
  /\ expenseRun.phase = "loop" /\ expenseRun.queue # <<>>
  /\ expenseRun'.phase = "loop" /\ expenseRun'.queue = Tail(expenseRun.queue)

NoFaultInStep == faultsLeft' = faultsLeft

NewTransactions == transactions' \ transactions

BatchTitles == {"Added Income for", "Added Expense for"}

QueueIds(q) == {q[k].id : k \in 1..Len(q)}

Balance(w) == wallets[w].currentAmount

\* C1: starting from non-negative balances, after any sequence of batch
\* runs, manual transactions and spontaneous-expense creations that do not
\* interleave, every wallet's currentAmount is >= 0.
C1_BalanceNeverNegative ==
  \A w \in DOMAIN wallets : wallets[w].currentAmount >= 0

\* a batch expense has taken a wallet down to exactly zero
C1_Witness ==
  \E t \in transactions :
    /\ t.title[1] = "Added Expense for"
    /\ t.amount > 0
    /\ wallets[t.walletId].currentAmount = 0

\* C2: a loop iteration on a source the batch finds due (for an expense:
\* whose wallet holds at least the amount), in which no persistence call
\* rejects, creates exactly one Transaction for that source and changes the
\* wallet's currentAmount by exactly +amount (income) or -amount (expense).
C2_DueSourceProcessedOnce ==
  [][(   (IncomeStepTaken /\ NoFaultInStep
            /\ shouldProcessIncome(Head(incomeRun.queue), incomeRun.today))
         => (/\ transactions \subseteq transactions'
             /\ Cardinality(NewTransactions) = 1
             /\ \A t \in NewTransactions :
                  /\ t.walletId = Head(incomeRun.queue).walletId
                  /\ t.amount = Head(incomeRun.queue).amount
                  /\ t.transactionType = "income"
                  /\ t.title[2] = Head(incomeRun.queue).name
             /\ wallets' = [wallets EXCEPT
                              ![Head(incomeRun.queue).walletId].currentAmount =
                                 @ + Head(incomeRun.queue).amount]))
     /\ (   (ExpenseStepTaken /\ NoFaultInStep
            /\ shouldProcessExpense(Head(expenseRun.queue), expenseRun.today)
            /\ Balance(Head(expenseRun.queue).walletId)
                 >= Head(expenseRun.queue).amount)
         => (/\ transactions \subseteq transactions'
             /\ Cardinality(NewTransactions) = 1
             /\ \A t \in NewTransactions :
                  /\ t.walletId = Head(expenseRun.queue).walletId
                  /\ t.amount = Head(expenseRun.queue).amount
                  /\ t.transactionType = "expense"
                  /\ t.title[2] = Head(expenseRun.queue).name
             /\ wallets' = [wallets EXCEPT
                              ![Head(expenseRun.queue).walletId].currentAmount =
                                 @ - Head(expenseRun.queue).amount]))
    ]_vars

\* the batch has processed an income source and an expense source
C2_Witness ==
  /\ \E t \in transactions : t.title[1] = "Added Income for" /\ t.amount > 0
  /\ \E t \in transactions : t.title[1] = "Added Expense for" /\ t.amount > 0

\* C3: a loop iteration on a due fixed expense whose wallet holds strictly
\* less than the amount creates no Transaction, leaves every wallet as it
\* was and leaves the source's relaxationDate (every expense) as it was.
C3_InsufficientLeavesAllUnchanged ==
  [][(ExpenseStepTaken
        /\ shouldProcessExpense(Head(expenseRun.queue), expenseRun.today)
        /\ Balance(Head(expenseRun.queue).walletId) < Head(expenseRun.queue).amount)
     => /\ transactions' = transactions
        /\ wallets' = wallets
        /\ expenses' = expenses
    ]_vars

\* the expense run has just skipped a due expense for insufficient funds
C3_Witness ==
  /\ expenseRun.phase = "loop"
  /\ expenseRun.insufficientFundsCount > 0
  /\ \E i \in expenseRun.attempted :
       /\ expenses[i].amount > Balance(expenses[i].walletId)
       /\ expenses[i].relaxationDate = NoDate

\* C4 (as claimed): every step of a ledger operation (batch income, batch
\* expense, manual transaction), a rejected persistence call included, adds
\* exactly one Transaction together with its balance delta, or neither.
C4_AllOrNothing ==
  [][(DOMAIN expenses' = DOMAIN expenses /\ DOMAIN incomes' = DOMAIN incomes)
     => \/ transactions' = transactions /\ wallets' = wallets
        \/ \E t \in NewTransactions :
             /\ transactions' = transactions \cup {t}
             /\ wallets' = [wallets EXCEPT ![t.walletId].currentAmount =
                              @ + (IF t.transactionType = "income"
                                   THEN t.amount ELSE -t.amount)]
    ]_vars

\* C5 (as claimed): no source gets a second batch Transaction on the same
\* calendar day, however often the batch runs on that day (a batch title
\* names the source and the day).
C5_NoSecondTransactionSameDay ==
  \A t1, t2 \in transactions :
    (t1.title[1] \in BatchTitles /\ t1.title = t2.title) => t1.id = t2.id

\* C6: when one source's processing throws, the run goes on: every source
\* selected for a run has been attempted or is still ahead in the loop, so
\* at the end of the loop every selected source has been attempted.
C6_FailureIsolation ==
  /\ incomeRun.phase = "loop" =>
       incomeRun.attempted \cup QueueIds(incomeRun.queue) = incomeRun.selected
  /\ expenseRun.phase = "loop" =>
       expenseRun.attempted \cup QueueIds(expenseRun.queue) = expenseRun.selected

\* the income loop is over; source 1 was due and threw, source 2 was
\* processed after it
C6_Witness ==
  /\ incomeRun.phase = "loop" /\ incomeRun.queue = <<>>
  /\ incomeRun.selected = {1, 2} /\ incomeRun.attempted = {1, 2}
  /\ incomeRun.processedCount = 1 /\ incomeRun.skippedCount = 0
  /\ shouldProcessIncome(incomes[1], incomeRun.today)
  /\ incomes[1].relaxationDate = NoDate
  /\ incomes[2].relaxationDate # NoDate

\* C7 (as claimed): a spontaneous expense whose amount exceeds the wallet's
\* currentAmount leaves no expense row and no Transaction row.
C7_OverdrawnSpontaneousRejected ==
  [][(\A i \in DOMAIN expenses' \ DOMAIN expenses :
        ~expenses'[i].isFixedExpense
        => expenses'[i].amount <= Balance(expenses'[i].walletId))
     /\ (\A t \in NewTransactions :
           t.title[1] = "Expense:" => t.amount <= Balance(t.walletId))
    ]_vars

\* C8 (as claimed): a spontaneous expense created with no rejected call has
\* exactly one Transaction and the wallet's currentAmount is down by amount.
C8_SpontaneousAppliedAtCreation ==
  [][\A i \in DOMAIN expenses' \ DOMAIN expenses :
       (~expenses'[i].isFixedExpense /\ NoFaultInStep)
       => /\ Cardinality(NewTransactions) = 1
          /\ \A t \in NewTransactions :
               t.amount = expenses'[i].amount /\ t.transactionType = "expense"
          /\ wallets' = [wallets EXCEPT ![expenses'[i].walletId].currentAmount =
                                          @ - expenses'[i].amount]
    ]_vars

\* C9: for every cycle type, cycle day 1..31 and instant, the date
\* updateRelaxationDate stores is strictly later than the instant.
C9_NextOccurrenceStrictlyLater ==
  cyc.result # NoDate => cyc.result > cyc.now

\* the method has run at the very instant of this month's occurrence
C9_Witness ==
  /\ cyc.result # NoDate
  /\ cyc.cycleType = "monthly"
  /\ cyc.now = MkDate(getFullYear(cyc.now), getMonth(cyc.now), cyc.cycleDate)

\* C10: a loop iteration that does not skip a quarterly source as not due
\* happens on day cycleDate of January, April, July or October.
C10_QuarterlyOnlyInQuarterMonths ==
  [][(   (IncomeStepTaken /\ Head(incomeRun.queue).cycleType = "quarterly"
            /\ incomeRun'.skippedCount = incomeRun.skippedCount)
         => (/\ getDate(NowOf(day)) = Head(incomeRun.queue).cycleDate
             /\ getMonth(NowOf(day)) \in {0, 3, 6, 9}))
     /\ (   (ExpenseStepTaken /\ Head(expenseRun.queue).cycleType = "quarterly"
            /\ expenseRun'.skippedCount = expenseRun.skippedCount)
         => (/\ getDate(NowOf(day)) = Head(expenseRun.queue).cycleDate
             /\ getMonth(NowOf(day)) \in {0, 3, 6, 9}))
    ]_vars

\* on the cycle day of February the expense run has skipped a quarterly
\* source, the only one selected
C10_Witness ==
  /\ expenseRun.phase = "loop"
  /\ expenseRun.selected = {1} /\ expenseRun.attempted = {1}
  /\ expenseRun.skippedCount = 1
  /\ expenses[1].cycleType = "quarterly"
  /\ expenses[1].cycleDate = getDate(NowOf(day))
  /\ getMonth(NowOf(day)) = 1

\* the source updateRelaxationDate was called on, as the batch sees it
CycSource ==
  [cycleDate |-> cyc.cycleDate, cycleType |-> cyc.cycleType,
   relaxationDate |-> NoDate]

\* updateRelaxationDate was called by the 09:00 batch on a day the source
\* is due
CycAtDueRun ==
  /\ cyc.result # NoDate
  /\ cyc.now = NowOf(cyc.now \div 24)
  /\ IF cyc.kind = "income"
     THEN shouldProcessIncome(CycSource, setHoursZero(cyc.now))
     ELSE shouldProcessExpense(CycSource, setHoursZero(cyc.now))

\* the first midnight after `now` on which the batch finds the source due
NextDueAfter(source, now) ==
  24 * Min({n \in ((now \div 24) + 1)..((now \div 24) + 4 * 31) :
              shouldProcessExpense(source, n * 24)})

\* C11: when the batch processes a monthly or quarterly source with cycle
\* day D in 1..28 on a day it is due, the relaxationDate it stores is the
\* next date the source is due again: day D of the following month
\* (monthly), day D of the next of January, April, July, October (quarterly).
C11_RelaxationDateIsNextDueDate ==
  (CycAtDueRun /\ cyc.cycleDate \in 1..28
     /\ cyc.cycleType \in {"monthly", "quarterly"})
  => (/\ cyc.result = NextDueAfter(CycSource, cyc.now)
      /\ getDate(cyc.result) = cyc.cycleDate
      /\ cyc.cycleType = "monthly"
           => getMonth(cyc.result) = (getMonth(cyc.now) + 1) % 12
      /\ cyc.cycleType = "quarterly"
           => getMonth(cyc.result) = (getMonth(cyc.now) + 3) % 12)

\* a quarterly expense with cycle day 28 was processed in October: the next
\* occurrence is in January of the following year
C11_Witness ==
  /\ CycAtDueRun
  /\ cyc.kind = "expense" /\ cyc.cycleType = "quarterly"
  /\ cyc.cycleDate = 28 /\ getMonth(cyc.now) = 9
  /\ getFullYear(cyc.result) = getFullYear(cyc.now) + 1

\* C12: a soft-deleted source stays soft-deleted, and no step taken while
\* it is soft-deleted (so no batch run started after the delete) creates a
\* batch Transaction for it or changes any of its fields, relaxationDate
\* included; with no Transaction created for it no balance changes for it.
C12_SoftDeletedExcludedForGood ==
  [][(\A i \in DOMAIN incomes :
        incomes[i].isDeleted
        => (/\ i \in DOMAIN incomes'
            /\ incomes'[i] = incomes[i]
            /\ \A t \in NewTransactions :
                 ~(t.title[1] = "Added Income for" /\ t.title[2] = incomes[i].name)))
     /\ (\A i \in DOMAIN expenses :
           expenses[i].isDeleted
           => (/\ i \in DOMAIN expenses'
               /\ expenses'[i] = expenses[i]
               /\ \A t \in NewTransactions :
                    ~(t.title[1] = "Added Expense for"
                        /\ t.title[2] = expenses[i].name)))
     /\ (\A k \in 1..Len(incomeRun'.queue) :
           ~incomes'[incomeRun'.queue[k].id].isDeleted)
     /\ (\A k \in 1..Len(expenseRun'.queue) :
           ~expenses'[expenseRun'.queue[k].id].isDeleted)
    ]_vars

\* an expense run on the due day of a soft-deleted expense, whose wallet
\* could pay it, has gone through its loop without it and processed another
C12_Witness ==
  /\ expenseRun.phase = "loop" /\ expenseRun.queue = <<>>
  /\ expenseRun.processedCount = 1
  /\ \E i \in DOMAIN expenses :
       /\ expenses[i].isDeleted
       /\ i \notin expenseRun.selected
       /\ expenses[i].amount > 0
       /\ expenses[i].relaxationDate = NoDate
       /\ shouldProcessExpense(expenses[i], expenseRun.today)
       /\ Balance(expenses[i].walletId) >= expenses[i].amount

\* the expense the step is about was warned about on day d0 and has had
\* no batch Transaction since
SkippedSince(expense, d0) ==
  /\ <<expense.id, d0>> \in insufficientLog
  /\ \A t \in transactions :
       (t.title[1] = "Added Expense for" /\ t.title[2] = expense.name)
       => t.transactionDate < NowOf(d0)

\* the step creates exactly one Transaction, for this expense
ProcessesNow(expense) ==
  /\ Cardinality(NewTransactions) = 1
  /\ \A t \in NewTransactions :
       /\ t.title[1] = "Added Expense for" /\ t.title[2] = expense.name
       /\ t.amount = expense.amount

\* C13 (as claimed): a run on the day after an insufficient-funds skip
\* processes the expense if the wallet by then holds at least the amount.
C13_RetriedNextDay ==
  [][(ExpenseStepTaken /\ NoFaultInStep
        /\ SkippedSince(Head(expenseRun.queue), day - 1)
        /\ Balance(Head(expenseRun.queue).walletId) >= Head(expenseRun.queue).amount)
     => ProcessesNow(Head(expenseRun.queue))
    ]_vars

\* C13 (amended): after an insufficient-funds skip the expense is processed
\* by the next run made on a day it is due (day of month = cycleDate, in a
\* quarter month for a quarterly source) with a sufficient balance: later
\* the same day or on the cycle day of a following cycle; a run on the
\* following calendar day skips it as not due and creates nothing.
C13_RetriedOnNextDueDay ==
  [][\A d0 \in 0..LastDay :
       (ExpenseStepTaken /\ NoFaultInStep /\ SkippedSince(Head(expenseRun.queue), d0))
       => (/\ (/\ getDate(NowOf(day)) = Head(expenseRun.queue).cycleDate
               /\ Head(expenseRun.queue).cycleType = "quarterly"
                    => getMonth(NowOf(day)) \in {0, 3, 6, 9}
               /\ Balance(Head(expenseRun.queue).walletId)
                    >= Head(expenseRun.queue).amount)
              => ProcessesNow(Head(expenseRun.queue))
           /\ day = d0 + 1
              => (/\ transactions' = transactions
                  /\ wallets' = wallets
                  /\ expenses' = expenses
                  /\ expenseRun'.skippedCount = expenseRun.skippedCount + 1))
    ]_vars

\* an expense skipped for insufficient funds was processed on its cycle day
\* of the following month, after the wallet was topped up
C13_Witness ==
  \E d0 \in 0..LastDay, t \in transactions :
    /\ <<1, d0>> \in insufficientLog
    /\ t.title[1] = "Added Expense for" /\ t.title[2] = expenses[1].name
    /\ t.amount > 0
    /\ t.transactionDate > NowOf(d0 + 1)
    /\ getDate(t.transactionDate) = expenses[1].cycleDate

\* the day the step is taken on is a cycle day of the source
OnCycleDay(source) ==
  /\ getDate(NowOf(day)) = source.cycleDate
  /\ source.cycleType = "quarterly" => getMonth(NowOf(day)) \in {0, 3, 6, 9}

\* the step creates exactly one batch Transaction, for this source
CreatesFor(source, prefix) ==
  /\ Cardinality(NewTransactions) = 1
  /\ \A t \in NewTransactions :
       /\ t.title[1] = prefix /\ t.title[2] = source.name
       /\ t.amount = source.amount

\* C14 (as claimed): a fixed source whose relaxationDate is null is due on
\* whatever day the batch runs: the run processes it.
C14_NullIsDueImmediately ==
  [][(   (IncomeStepTaken /\ NoFaultInStep
            /\ Head(incomeRun.queue).relaxationDate = NoDate)
         => CreatesFor(Head(incomeRun.queue), "Added Income for"))
     /\ (   (ExpenseStepTaken /\ NoFaultInStep
            /\ Head(expenseRun.queue).relaxationDate = NoDate
            /\ Balance(Head(expenseRun.queue).walletId)
                 >= Head(expenseRun.queue).amount)
         => CreatesFor(Head(expenseRun.queue), "Added Expense for"))
    ]_vars

\* C14 (amended): a fixed source whose relaxationDate is null is processed
\* by a run made on a cycle day of the source (day of month = cycleDate, in
\* a quarter month for a quarterly source; for a yearly source day cycleDate
\* of any month); a run on any other day skips it as not due and changes
\* nothing.
C14_NullIsDueOnCycleDay ==
  [][(   (IncomeStepTaken /\ NoFaultInStep
            /\ Head(incomeRun.queue).relaxationDate = NoDate)
         => IF OnCycleDay(Head(incomeRun.queue))
            THEN CreatesFor(Head(incomeRun.queue), "Added Income for")
            ELSE /\ transactions' = transactions /\ wallets' = wallets
                 /\ incomes' = incomes
                 /\ incomeRun'.skippedCount = incomeRun.skippedCount + 1)
     /\ (   (ExpenseStepTaken /\ NoFaultInStep
            /\ Head(expenseRun.queue).relaxationDate = NoDate
            /\ Balance(Head(expenseRun.queue).walletId)
                 >= Head(expenseRun.queue).amount)
         => IF OnCycleDay(Head(expenseRun.queue))
            THEN CreatesFor(Head(expenseRun.queue), "Added Expense for")
            ELSE /\ transactions' = transactions /\ wallets' = wallets
                 /\ expenses' = expenses
                 /\ expenseRun'.skippedCount = expenseRun.skippedCount + 1)
    ]_vars

\* the first income run since the sources were created is made on a day
\* that is not their cycle day: it has skipped income 1, never processed
C14_Witness ==
  /\ incomeRun.phase = "loop" /\ 1 \in incomeRun.attempted
  /\ incomeRun.skippedCount >= 1
  /\ incomes[1].relaxationDate = NoDate
  /\ getDate(NowOf(day)) # incomes[1].cycleDate
  /\ transactions = {} /\ faultsLeft = MaxFaults /\ insufficientLog = {}

\* the batch Transactions of the yearly sources: a title names the
\* collection and the source
YearlyTx ==
  {t \in transactions :
     \/ /\ t.title[1] = "Added Income for"
        /\ t.title[2] \in DOMAIN incomes
        /\ incomes[t.title[2]].cycleType = "yearly"
     \/ /\ t.title[1] = "Added Expense for"
        /\ t.title[2] \in DOMAIN expenses
        /\ expenses[t.title[2]].cycleType = "yearly"}

SameSource(t1, t2) == t1.title[1] = t2.title[1] /\ t1.title[2] = t2.title[2]

C16_YearlySameDayEachYear ==
  (faultsLeft = MaxFaults /\ insufficientLog = {})
  => \A t1, t2 \in YearlyTx :
       (/\ SameSource(t1, t2)
        /\ t1.transactionDate < t2.transactionDate
        /\ ~\E t3 \in YearlyTx :
              /\ SameSource(t1, t3)
              /\ t1.transactionDate < t3.transactionDate
              /\ t3.transactionDate < t2.transactionDate)
       => /\ getMonth(t1.transactionDate) = getMonth(t2.transactionDate)
          /\ getDate(t1.transactionDate) = getDate(t2.transactionDate)
          /\ getFullYear(t2.transactionDate) = getFullYear(t1.transactionDate) + 1

\* -------------------- debit operations interleaved at their awaits
\* Each handler runs to its next await in one step; between two awaits of
\* one operation the steps of another may run.

OpFree(p) == ops[p].kind = "none"
OpAt(p, kind, pc) == ops[p].kind = kind /\ ops[p].pc = pc
OpOthers == <<day, incomeRun, expenseRun, faultsLeft, cyc, insufficientLog, users>>

\* POST /api/transactions up to the first await: UserWallet.findOne(...)
\* answers, and a missing wallet is a 404
ManualFindWallet(p) ==
  /\ OpFree(p)
  /\ \E walletId \in WalletIds, amount \in Amounts,
        transactionType \in {"income", "expense"} :
       ops' = [ops EXCEPT ![p] =
                 IF WalletFound(DB, walletId)
                 THEN [kind |-> "manual", pc |-> "create", walletId |-> walletId,
                       amount |-> amount, transactionType |-> transactionType,
                       expenseId |-> 0, seen |-> wallets[walletId].currentAmount,
                       txId |-> 0]
                 ELSE NoOp]
  /\ UNCHANGED <<wallets, incomes, expenses, transactions, nextTxId>>
  /\ UNCHANGED OpOthers

\* await Transaction.create(transactionData)
ManualCreate(p) ==
  /\ OpAt(p, "manual", "create")
  /\ nextTxId <= MaxTx
  /\ SetDB(TransactionCreate(DB, ops[p].walletId, <<"manual", "t", <<>>>>,
                             ops[p].amount, ops[p].transactionType, NowOf(day)))
  /\ ops' = [ops EXCEPT ![p].pc = "update", ![p].txId = nextTxId]
  /\ UNCHANGED OpOthers

\* the balance check on the wallet document read by findOne, then the
\* rollback or the $inc
ManualUpdate(p) ==
  /\ OpAt(p, "manual", "update")
  /\ SetDB(IF ops[p].transactionType = "income"
           THEN WalletInc(DB, ops[p].walletId, ops[p].amount)
           ELSE IF ops[p].seen < ops[p].amount
                THEN TransactionDelete(DB, ops[p].txId)
                ELSE WalletInc(DB, ops[p].walletId, -ops[p].amount))
  /\ ops' = [ops EXCEPT ![p] = NoOp]
  /\ UNCHANGED OpOthers

\* checkExpenseSources calls processExpenseSource(expense) for a due source:
\* UserWallet.findById answers; no wallet or too low a balance returns null
BatchFindWallet(p) ==
  /\ OpFree(p)
  /\ \A q \in 1..MaxOps : ops[q].kind # "batch"
  /\ \E i \in DOMAIN expenses :
       /\ ~expenses[i].isDeleted
       /\ shouldProcessExpense(expenses[i], TodayOf(day))
       /\ LET expense == expenses[i]
              found == expense.walletId \in DOMAIN wallets
              seen == IF found THEN wallets[expense.walletId].currentAmount
                      ELSE Undefined
          IN ops' = [ops EXCEPT ![p] =
                       IF ~found \/ seen < expense.amount THEN NoOp
                       ELSE [kind |-> "batch", pc |-> "create",
                             walletId |-> expense.walletId,
                             amount |-> expense.amount,
                             transactionType |-> "expense", expenseId |-> i,
                             seen |-> seen, txId |-> 0]]
  /\ UNCHANGED <<wallets, incomes, expenses, transactions, nextTxId>>
  /\ UNCHANGED OpOthers

\* await Transaction.create({...})
BatchCreate(p) ==
  /\ OpAt(p, "batch", "create")
  /\ nextTxId <= MaxTx
  /\ LET expense == expenses[ops[p].expenseId]
     IN SetDB(TransactionCreate(DB, ops[p].walletId,
                <<"Added Expense for", expense.name, formatDate(NowOf(day))>>,
                ops[p].amount, "expense", NowOf(day)))
  /\ ops' = [ops EXCEPT ![p].pc = "inc", ![p].txId = nextTxId]
  /\ UNCHANGED OpOthers

\* await UserWallet.findByIdAndUpdate(walletId, {$inc: {currentAmount: -amount}})
BatchInc(p) ==
  /\ OpAt(p, "batch", "inc")
  /\ SetDB(WalletInc(DB, ops[p].walletId, -ops[p].amount))
  /\ ops' = [ops EXCEPT ![p].pc = "save"]
  /\ UNCHANGED OpOthers

\* await expense.updateRelaxationDate()
BatchSave(p) ==
  /\ OpAt(p, "batch", "save")
  /\ LET expense == expenses[ops[p].expenseId]
     IN SetDB([DB EXCEPT !.expenses[expense.id].relaxationDate =
                 expenseUpdateRelaxationDate(expense.cycleType, expense.cycleDate,
                                             NowOf(day))])
  /\ ops' = [ops EXCEPT ![p] = NoOp]
  /\ UNCHANGED OpOthers

NextConcurrent ==
  \E p \in 1..MaxOps :
    \/ ManualFindWallet(p)
    \/ ManualCreate(p)
    \/ ManualUpdate(p)
    \/ BatchFindWallet(p)
    \/ BatchCreate(p)
    \/ BatchInc(p)
    \/ BatchSave(p)

SpecConcurrent == InitRetry /\ [][NextConcurrent]_vars

\* operation p takes currentAmount of its wallet down in this step
Debits(p) ==
  /\ ops[p].kind # "none"
  /\ ops[p].transactionType = "expense"
  /\ wallets'[ops[p].walletId].currentAmount
       < wallets[ops[p].walletId].currentAmount

\* C17: for any interleaving of two debit operations on one wallet (the
\* batch processing an expense and a manual expense request, or two manual
\* expense requests), no debit takes the wallet's currentAmount below zero.
C17_InterleavedDebitsStayNonNegative ==
  [][\A p \in 1..MaxOps :
       Debits(p) => (wallets'[ops[p].walletId].currentAmount >= 0)]_vars

\* ------------------------------------------------- PUT /api/wallets/:id
\* the values a request body gives currentAmount (isFloat admits any sign)
BodyAmounts == {Undefined, -1} \cup Amounts

\* userWalletSchema.pre('save'), part_005 lines 820-829: the wallet being
\* saved is the default one and its isDefault was modified
DefaultHook(wallet, assigned) ==
  assigned.isDefault /\ assigned.isDefault # wallet.isDefault

\* updateMany({userId, _id: {$ne: id}}, {$set: {isDefault: false}})
UnsetOtherDefaults(d, id) ==
  [d EXCEPT !.wallets = [w \in DOMAIN d.wallets |->
                           IF w = id THEN d.wallets[w]
                           ELSE [d.wallets[w] EXCEPT !.isDefault = FALSE]]]

\* Object.assign(wallet, updates) for the paths this model keeps
AssignWallet(wallet, currentAmount, isDefault) ==
  [wallet EXCEPT
     !.currentAmount = IF currentAmount = Undefined THEN @ ELSE currentAmount,
     !.isDefault = IF isDefault = <<>> THEN @ ELSE isDefault[1]]

\* routes/wallets.js, lines 160-221: of allowedUpdates, currentAmount and
\* isDefault are the paths this model keeps; Object.assign(wallet, updates);
\* wallet.save(). fault 2 is the hook's updateMany, fault 3 the save
putWallet(d, id, currentAmount, isDefault, fault) ==
  IF fault = 1 THEN Reply(d, "500")
  ELSE IF ~WalletFound(d, id) THEN Reply(d, "404")
  ELSE LET wallet == d.wallets[id]
           assigned == AssignWallet(wallet, currentAmount, isDefault)
           d1 == IF DefaultHook(wallet, assigned) THEN UnsetOtherDefaults(d, id) ELSE d
       IN IF fault = 2 THEN Reply(d, "500")
          ELSE IF fault = 3 THEN Reply(d1, "500")
          ELSE Reply([d1 EXCEPT !.wallets[id] = assigned], "200")

PutWallet ==
  /\ NoRun
  /\ \E id \in 1..MaxWallets, currentAmount \in BodyAmounts,
        isDefault \in {<<>>, <<TRUE>>, <<FALSE>>}, fault \in 0..3 :
       /\ FaultOK(fault)
       /\ fault > 1 => WalletFound(DB, id)
       /\ fault = 2 => DefaultHook(wallets[id],
                                   AssignWallet(wallets[id], currentAmount, isDefault))
       /\ SetDB(putWallet(DB, id, currentAmount, isDefault, fault).db)
       /\ faultsLeft' = Spend(fault)
  /\ UNCHANGED <<ops, insufficientLog, day, incomeRun, expenseRun, cyc, users>>

NextWallet ==
  \/ PutWallet
  \/ PostTransaction
  \/ Tick

SpecWallet == Init /\ [][NextWallet]_vars

\* the Transactions for wallet w this step creates
CreatedFor(w) == {t \in transactions' \ transactions : t.walletId = w}

Abs(n) == IF n < 0 THEN -n ELSE n

\* C18: in every step in which a wallet's currentAmount changes, a
\* Transaction for that wallet with the amount of the change is created in
\* the same step; a wallet update changes no currentAmount.
C18_BalanceChangesOnlyWithTransaction ==
  [][\A w \in DOMAIN wallets :
       (wallets'[w].currentAmount # wallets[w].currentAmount)
         => (\E t \in CreatedFor(w) :
               t.amount = Abs(wallets'[w].currentAmount - wallets[w].currentAmount))]_vars

\* ------------------------------------------------ the totals of a sub-run
\* the sources a run has folded into one of the counters it keeps
Counted(run) == run.processedCount + run.skippedCount + run.insufficientFundsCount

\* the for loop of a callback is over and its totals are about to be logged
LoopOver(run) == run.phase = "loop" /\ run.queue = <<>>

\* C19: at the end of every batch sub-run each selected source has been
\* folded into exactly one counter: the counters the run keeps add up to
\* the number of sources selected, a source whose processing raised an
\* error included.
C19_CountersAddUpToSelected ==
  /\ LoopOver(incomeRun) => Counted(incomeRun) = Cardinality(incomeRun.selected)
  /\ LoopOver(expenseRun) => Counted(expenseRun) = Cardinality(expenseRun.selected)

\* ------------------------- sources whose wallet id resolves to no wallet
\* a wallet id no document of the UserWallet collection has
Unresolved == 2

\* the sources I of incomes and E of expenses refer to a wallet that is gone
Dangle(d, I, E) ==
  [d EXCEPT
     !.incomes = [i \in DOMAIN d.incomes |->
                    IF i \in I THEN [d.incomes[i] EXCEPT !.walletId = Unresolved]
                    ELSE d.incomes[i]],
     !.expenses = [i \in DOMAIN d.expenses |->
                     IF i \in E THEN [d.expenses[i] EXCEPT !.walletId = Unresolved]
                     ELSE d.expenses[i]]]

InitDangling ==
  /\ day \in StartDays
  /\ \E a \in 0..MaxInitAmount :
       \E c \in CreatedFrom(EmptyDB(a), NowOf(day), BatchSources) :
         \E I \in SUBSET DOMAIN c.incomes, E \in SUBSET DOMAIN c.expenses :
           /\ I \cup E # {}
           /\ LET d == Dangle(c, I, E)
              IN /\ wallets = d.wallets
                 /\ incomes = d.incomes
                 /\ expenses = d.expenses
                 /\ transactions = d.transactions
                 /\ nextTxId = d.nextTxId
  /\ incomeRun = Idle
  /\ expenseRun = Idle
  /\ faultsLeft = MaxFaults
  /\ insufficientLog = {}
  /\ ops = NoOps
  /\ cyc = NoCycle
  /\ users = NoUsers

SpecDangling == InitDangling /\ [][NextBatch]_vars

\* populate("walletId") found no document for the source's wallet id
WalletGone(source) == source.walletId \notin DOMAIN wallets

\* the income loop takes a due source whose wallet is gone
DanglingIncomeStep ==
  /\ IncomeStepTaken
  /\ shouldProcessIncome(Head(incomeRun.queue), incomeRun.today)
  /\ WalletGone(Head(incomeRun.queue))

\* the expense loop takes a due source whose wallet is gone
DanglingExpenseStep ==
  /\ ExpenseStepTaken
  /\ shouldProcessExpense(Head(expenseRun.queue), expenseRun.today)
  /\ WalletGone(Head(expenseRun.queue))

\* C20: when the batch processes a due source whose wallet id resolves to
\* no wallet, no Transaction is created, no wallet changes and the source
\* (its relaxationDate, the next due date) stays as it was, for income and
\* for expense sources.
C20_UnresolvedWalletFailsCleanly ==
  [][ ( DanglingIncomeStep
          => ( (transactions' = transactions) /\ (wallets' = wallets)
               /\ (incomes' = incomes) /\ (nextTxId' = nextTxId) ) )
      /\
      ( DanglingExpenseStep
          => ( (transactions' = transactions) /\ (wallets' = wallets)
               /\ (expenses' = expenses) /\ (nextTxId' = nextTxId) ) ) ]_vars

\* the expense loop has been over a due expense whose wallet is gone, and a
\* due income whose wallet is gone was left as it was created
C20_Witness ==
  /\ expenseRun.phase = "loop"
  /\ \E i \in expenseRun.attempted :
       /\ WalletGone(expenses[i])
       /\ shouldProcessExpense(expenses[i], expenseRun.today)
  /\ \E i \in DOMAIN incomes :
       /\ WalletGone(incomes[i])
       /\ shouldProcessIncome(incomes[i], expenseRun.today)

\* ---------------------------------------------- DELETE /api/wallets/:id
\* routes/wallets.js, lines 226-273: the soft delete of a wallet that is not
\* the default one; fault 3 is the $pull on the user's wallets array
deleteWallet(d, id, fault) ==
  LET d1 == [d EXCEPT !.wallets[id].isDeleted = TRUE]
  IN IF fault = 1 THEN Reply(d, "500")
     ELSE IF ~WalletFound(d, id) THEN Reply(d, "404")
     ELSE IF d.wallets[id].isDefault THEN Reply(d, "400")
     ELSE IF fault = 2 THEN Reply(d, "500")
     ELSE IF fault = 3 THEN Reply(d1, "500")
     ELSE Reply(d1, "200")

DeleteWallet ==
  /\ NoRun
  /\ \E id \in WalletIds, fault \in 0..3 :
       /\ FaultOK(fault)
       /\ SetDB(deleteWallet(DB, id, fault).db)
       /\ faultsLeft' = Spend(fault)
  /\ UNCHANGED <<ops, insufficientLog, day, incomeRun, expenseRun, cyc, users>>

NextWalletDeleted == NextBatch \/ DeleteWallet

SpecWalletDeleted == InitBatch /\ [][NextWalletDeleted]_vars

\* the wallet of a source is there and soft-deleted
WalletSoftDeleted(source) ==
  source.walletId \in DOMAIN wallets /\ wallets[source.walletId].isDeleted

\* C21: when the batch processes a due source whose wallet has been
\* soft-deleted, no Transaction is created and the wallet is left as it was.
C21_SoftDeletedWalletNotTouched ==
  [][ ( ( IncomeStepTaken
          /\ shouldProcessIncome(Head(incomeRun.queue), incomeRun.today)
          /\ WalletSoftDeleted(Head(incomeRun.queue)) )
        => ( (transactions' = transactions) /\ (wallets' = wallets) ) )
      /\
      ( ( ExpenseStepTaken
          /\ shouldProcessExpense(Head(expenseRun.queue), expenseRun.today)
          /\ WalletSoftDeleted(Head(expenseRun.queue)) )
        => ( (transactions' = transactions) /\ (wallets' = wallets) ) ) ]_vars

\* ------------------------------- PUT /api/expenses/:id, PUT /api/incomes/:id
\* the name an owner's edit gives a source
OtherName == 7

\* the entry date a request may carry
BodyEntryDate == NowOf(Min(StartDays))

\* the cycle types update requests are tried with
BodyCycleTypes == {"monthly", "yearly"}

\* a request body: a field the body does not carry is Undefined, NoDay,
\* NoType, NoDate or <<>>; the route's validators admit amount >= 0,
\* cycleDate in 1..31 and the three cycle types
AllBodies ==
  [name : {Undefined, OtherName},
   amount : {Undefined} \cup Amounts,
   isFixed : {<<>>, <<TRUE>>, <<FALSE>>},
   cycleDate : {NoDay} \cup CycleDays,
   cycleType : {NoType} \cup BodyCycleTypes,
   entryDate : {NoDate, BodyEntryDate}]

\* the number of fields a body carries
FieldsOf(body) ==
  (IF body.name = Undefined THEN 0 ELSE 1)
  + (IF body.amount = Undefined THEN 0 ELSE 1)
  + (IF body.isFixed = <<>> THEN 0 ELSE 1)
  + (IF body.cycleDate = NoDay THEN 0 ELSE 1)
  + (IF body.cycleType = NoType THEN 0 ELSE 1)
  + (IF body.entryDate = NoDate THEN 0 ELSE 1)

Bodies == {body \in AllBodies : FieldsOf(body) <= MaxBodyFields}

\* a body that carries no field
EmptyBody == [name |-> Undefined, amount |-> Undefined, isFixed |-> <<>>,
              cycleDate |-> NoDay, cycleType |-> NoType, entryDate |-> NoDate]

\* allowedUpdates.forEach(field => if (req.body[field] !== undefined) ...)
\* on an Expense document
AssignExpense(doc, body) ==
  [doc EXCEPT
     !.name = IF body.name = Undefined THEN @ ELSE body.name,
     !.amount = IF body.amount = Undefined THEN @ ELSE body.amount,
     !.isFixedExpense = IF body.isFixed = <<>> THEN @ ELSE body.isFixed[1],
     !.cycleDate = IF body.cycleDate = NoDay THEN @ ELSE body.cycleDate,
     !.cycleType = IF body.cycleType = NoType THEN @ ELSE body.cycleType,
     !.entryDate = IF body.entryDate = NoDate THEN @ ELSE body.entryDate]

\* the same loop on an Income document: isFixedIncome and entryDate are no
\* paths of incomeSchema, so the assignments are dropped
AssignIncome(doc, body) ==
  [doc EXCEPT
     !.name = IF body.name = Undefined THEN @ ELSE body.name,
     !.amount = IF body.amount = Undefined THEN @ ELSE body.amount,
     !.cycleDate = IF body.cycleDate = NoDay THEN @ ELSE body.cycleDate,
     !.cycleType = IF body.cycleType = NoType THEN @ ELSE body.cycleType]

SourceFound(coll, id) == id \in DOMAIN coll /\ ~coll[id].isDeleted

\* PUT /api/expenses/:id clearing relaxationDate when it stores a cycle
\* field (sensitivity variant)
putExpense_resetsRelaxation(d, id, body, fault) ==
  IF fault = 1 THEN Reply(d, "500")
  ELSE IF ~SourceFound(d.expenses, id) THEN Reply(d, "404")
  ELSE LET assigned == AssignExpense(d.expenses[id], body)
           expense == IF body.cycleDate # NoDay \/ body.cycleType # NoType
                      THEN [assigned EXCEPT !.relaxationDate = NoDate]
                      ELSE assigned
       IN IF fault = 2 \/ ~ExpenseValid(expense) THEN Reply(d, "500")
          ELSE Reply([d EXCEPT !.expenses[id] = expense], "200")

\* PUT /api/expenses/:id, lines 256-302; fault 2 is expense.save()
putExpense(d, id, body, fault) ==
  IF fault = 1 THEN Reply(d, "500")
  ELSE IF ~SourceFound(d.expenses, id) THEN Reply(d, "404")
  ELSE LET expense == AssignExpense(d.expenses[id], body)
       IN IF fault = 2 \/ ~ExpenseValid(expense) THEN Reply(d, "500")
          ELSE Reply([d EXCEPT !.expenses[id] = expense], "200")

\* PUT /api/incomes/:id, lines 247-293; fault 2 is income.save()
putIncome(d, id, body, fault) ==
  IF fault = 1 THEN Reply(d, "500")
  ELSE IF ~SourceFound(d.incomes, id) THEN Reply(d, "404")
  ELSE LET income == AssignIncome(d.incomes[id], body)
       IN IF fault = 2 \/ ~IncomeValid(income) THEN Reply(d, "500")
          ELSE Reply([d EXCEPT !.incomes[id] = income], "200")

PutExpense ==
  /\ NoRun
  /\ \E id \in 1..MaxSources, body \in Bodies, fault \in 0..2 :
       /\ FaultOK(fault)
       /\ (fault > 0 \/ ~SourceFound(expenses, id)) => body = EmptyBody
       /\ SetDB(putExpense(DB, id, body, fault).db)
       /\ faultsLeft' = Spend(fault)
  /\ UNCHANGED <<ops, insufficientLog, day, incomeRun, expenseRun, cyc, users>>

PutIncome ==
  /\ NoRun
  /\ \E id \in 1..MaxSources, body \in Bodies, fault \in 0..2 :
       /\ FaultOK(fault)
       /\ (fault > 0 \/ ~SourceFound(incomes, id)) => body = EmptyBody
       /\ SetDB(putIncome(DB, id, body, fault).db)
       /\ faultsLeft' = Spend(fault)
  /\ UNCHANGED <<ops, insufficientLog, day, incomeRun, expenseRun, cyc, users>>

\* the requests and the callbacks of one cycle day
NextEdit ==
  \/ PostExpense
  \/ PostIncome
  \/ PutExpense
  \/ PutIncome
  \/ IncomeRunStart
  \/ IncomeRunStep
  \/ IncomeRunEnd
  \/ ExpenseRunStart
  \/ ExpenseRunStep
  \/ ExpenseRunEnd

SpecEdit == Init /\ [][NextEdit]_vars

\* C22: spontaneous sources are never processed by the batch: after any
\* sequence of source creations and owner edits, every Transaction a batch
\* run creates belongs to a source with isFixedExpense = true.
C22_BatchProcessesOnlyFixed ==
  [][ (ExpenseStepTaken /\ (NewTransactions # {}))
        => Head(expenseRun.queue).isFixedExpense ]_vars

\* the cycle group (cycleDate, cycleType) and the entry group (entryDate)
HasCycleGroup(doc) == doc.cycleDate # NoDay /\ doc.cycleType # NoType
NoCycleGroup(doc) == doc.cycleDate = NoDay /\ doc.cycleType = NoType

\* C23: in every reachable state, after any sequence of source creations
\* and updates, a fixed expense has cycleDate and cycleType and no
\* entryDate, and a spontaneous expense has entryDate and neither cycleDate
\* nor cycleType.
C23_ExactlyOneFieldGroup ==
  \A i \in DOMAIN expenses :
    IF expenses[i].isFixedExpense
    THEN HasCycleGroup(expenses[i]) /\ expenses[i].entryDate = NoDate
    ELSE NoCycleGroup(expenses[i]) /\ expenses[i].entryDate # NoDate

\* --------------------- DELETE /api/transactions/:id, GET /api/transactions
\* part_004, lines 265-300: transaction.softDelete() is the schema method of
\* models/Transaction.js, lines 79-84; fault 2 is its save()
deleteTransaction(d, now, id, fault) ==
  LET found == {t \in d.transactions : t.id = id /\ ~t.isDeleted}
  IN IF fault = 1 THEN Reply(d, "500")
     ELSE IF found = {} THEN Reply(d, "404")
     ELSE IF fault = 2 THEN Reply(d, "500")
     ELSE Reply([d EXCEPT !.transactions =
                   (@ \ found) \cup {softDelete(t, now) : t \in found}], "200")

DeleteTransaction ==
  /\ NoRun
  /\ \E id \in 1..MaxTx, fault \in 0..2 :
       /\ FaultOK(fault)
       /\ SetDB(deleteTransaction(DB, NowOf(day), id, fault).db)
       /\ faultsLeft' = Spend(fault)
  /\ UNCHANGED <<ops, insufficientLog, day, incomeRun, expenseRun, cyc, users>>

RECURSIVE SumAmounts(_)
SumAmounts(txs) ==
  IF txs = {} THEN 0
  ELSE LET t == CHOOSE t \in txs : TRUE IN t.amount + SumAmounts(txs \ {t})

\* GET /api/transactions listing every Transaction (sensitivity variant)
getTransactions_withDeleted(txs) ==
  LET data == txs
      totalIncome == SumAmounts({t \in data : t.transactionType = "income"})
      totalExpense == SumAmounts({t \in data : t.transactionType # "income"})
  IN [count |-> Cardinality(data), data |-> data,
      summary |-> [totalIncome |-> totalIncome, totalExpense |-> totalExpense,
                   netAmount |-> totalIncome - totalExpense]]

\* GET /api/transactions with no filter in the query, lines 152-205: the
\* Transactions with isDeleted false and the totals over them
getTransactions(txs) ==
  LET data == {t \in txs : ~t.isDeleted}
      totalIncome == SumAmounts({t \in data : t.transactionType = "income"})
      totalExpense == SumAmounts({t \in data : t.transactionType # "income"})
  IN [count |-> Cardinality(data), data |-> data,
      summary |-> [totalIncome |-> totalIncome, totalExpense |-> totalExpense,
                   netAmount |-> totalIncome - totalExpense]]

NextLedger ==
  \/ PostTransaction
  \/ DeleteTransaction
  \/ Tick

SpecLedger == Init /\ [][NextLedger]_vars

\* the Transactions this step soft-deletes
SoftDeletedNow ==
  {t \in transactions :
     ~t.isDeleted /\ \E u \in transactions' : u.id = t.id /\ u.isDeleted}

\* the part of a summary a Transaction of the given type and amount adds
Share(t, type) == IF t.transactionType = type THEN t.amount ELSE 0

InitOwner ==
  /\ day \in StartDays
  /\ \E a \in 0..MaxInitAmount :
       \E d \in CreatedFrom(EmptyDB(a), NowOf(day), 1) :
         /\ wallets = d.wallets
         /\ incomes = d.incomes
         /\ expenses = d.expenses
         /\ transactions = d.transactions
         /\ nextTxId = d.nextTxId
  /\ incomeRun = Idle
  /\ expenseRun = Idle
  /\ faultsLeft = MaxFaults
  /\ insufficientLog = {}
  /\ ops = NoOps
  /\ cyc = NoCycle
  /\ users = NoUsers

NextOwner ==
  \/ PutExpense
  \/ PutIncome
  \/ DeleteExpense
  \/ DeleteIncome
  \/ IncomeRunStart
  \/ IncomeRunStep
  \/ IncomeRunEnd
  \/ ExpenseRunStart
  \/ ExpenseRunStep
  \/ ExpenseRunEnd

SpecOwner == InitOwner /\ [][NextOwner]_vars

\* the sources of a collection whose relaxationDate this step changes
Advanced(coll, collNext) ==
  {i \in DOMAIN coll \cap DOMAIN collNext :
     collNext[i].relaxationDate # coll[i].relaxationDate}

\* the sources of a collection this step changes otherwise
Touched(coll, collNext) ==
  {i \in DOMAIN coll \cap DOMAIN collNext :
     collNext[i] # coll[i] /\ collNext[i].relaxationDate = coll[i].relaxationDate}

\* C25: a source's relaxationDate changes only in the batch step that
\* processes the source and creates a Transaction for it; every step that
\* changes a source otherwise (an owner's edit, a soft delete) leaves
\* relaxationDate and every Transaction as they were.
C25_NextDueDateOnlyByProcessing ==
  [][ (\A i \in Advanced(incomes, incomes') :
         ( IncomeStepTaken /\ (Head(incomeRun.queue).id = i)
           /\ CreatesFor(Head(incomeRun.queue), "Added Income for") ))
      /\ (\A i \in Advanced(expenses, expenses') :
            ( ExpenseStepTaken /\ (Head(expenseRun.queue).id = i)
              /\ CreatesFor(Head(expenseRun.queue), "Added Expense for") ))
      /\ ( (Touched(incomes, incomes') \cup Touched(expenses, expenses') # {})
           => (transactions' = transactions) ) ]_vars

\* an expense was processed and then renamed by its owner: relaxationDate
\* is set and the Transaction carries the name it was created with
C25_Witness ==
  \E i \in DOMAIN expenses :
    /\ expenses[i].relaxationDate # NoDate
    /\ expenses[i].name = OtherName
    /\ \E t \in transactions :
         t.title[1] = "Added Expense for" /\ t.title[2] = i

\* C26: every persisted source amount, and so every Transaction amount
\* produced from a source, is strictly positive: no create or update
\* request with amount <= 0 is accepted.
C26_AmountsStrictlyPositive ==
  /\ \A i \in DOMAIN incomes : incomes[i].amount > 0
  /\ \A i \in DOMAIN expenses : expenses[i].amount > 0
  /\ \A t \in transactions : t.amount > 0

\* ------------- interleaved debits and credits, and Transaction soft delete
NextQuiescent ==
  \/ NextConcurrent
  \/ DeleteTransaction

SpecQuiescent == InitRetry /\ [][NextQuiescent]_vars

\* no operation is between two of its awaits
Quiescent == \A p \in 1..MaxOps : ops[p].kind = "none"

\* the Transactions of a wallet of one type, soft-deleted ones included
LedgerOf(w, type) ==
  {t \in transactions : t.walletId = w /\ t.transactionType = type}

\* C27: with no rejected persistence call, after any interleaving of batch
\* expense processing and manual transaction requests, whenever no operation
\* is in flight each wallet's currentAmount is its initial amount plus its
\* income Transactions minus its expense Transactions, soft-deleted
\* Transactions counted and rolled-back ones not.
C27_LedgerConservation ==
  (Quiescent /\ faultsLeft = MaxFaults)
  => \A w \in DOMAIN wallets :
       wallets[w].currentAmount
         = wallets[w].initialAmount + SumAmounts(LedgerOf(w, "income"))
             - SumAmounts(LedgerOf(w, "expense"))

\* nothing is in flight, a manual request was rolled back, an accepted
\* Transaction has been soft-deleted and the balance has moved
C27_Witness ==
  /\ Quiescent /\ faultsLeft = MaxFaults
  /\ nextTxId > Cardinality(transactions) + 1
  /\ \E t \in transactions : t.isDeleted /\ t.amount > 0
  /\ \E w \in DOMAIN wallets : wallets[w].currentAmount # wallets[w].initialAmount

\* ----------------- the two callbacks of one morning, interleaved at awaits
\* checkIncomeSources and checkExpenseSources are both scheduled at
\* "0 9 * * *": each runs to its next await in one step. The slot of ops a
\* callback keeps the processing of its current source in:
IncomeSlot == 1
ExpenseSlot == 2

\* a callback that has logged its totals
Done(run) == [run EXCEPT !.phase = "done"]

\* one fixed income and one fixed expense exist when the schedule fires
InitSubRuns ==
  /\ day \in StartDays
  /\ \E a \in 0..MaxInitAmount :
       \E d \in CreatedFrom(EmptyDB(a), NowOf(day), 2) :
         /\ d.incomes # <<>> /\ d.expenses # <<>>
         /\ wallets = d.wallets
         /\ incomes = d.incomes
         /\ expenses = d.expenses
         /\ transactions = d.transactions
         /\ nextTxId = d.nextTxId
  /\ incomeRun = Idle
  /\ expenseRun = Idle
  /\ faultsLeft = 0
  /\ insufficientLog = {}
  /\ ops = NoOps
  /\ cyc = NoCycle
  /\ users = NoUsers

\* checkIncomeSources, lines 161-171
IncomeSubRunStart ==
  /\ incomeRun.phase = "idle"
  /\ incomeRun' = [Idle EXCEPT !.phase = "loop", !.today = TodayOf(day),
                               !.queue = FindActive(incomes),
                               !.selected = {i \in DOMAIN incomes : ~incomes[i].isDeleted}]
  /\ UNCHANGED <<ops, insufficientLog, day, wallets, incomes, expenses,
                 transactions, nextTxId, expenseRun, faultsLeft, cyc, users>>

\* the for loop takes its next source, lines 173-181: a source that is not
\* due is skipped; processIncomeSource runs to Transaction.create, or throws
\* on a null walletId
IncomeSubRunCreate ==
  /\ incomeRun.phase = "loop" /\ incomeRun.queue # <<>>
  /\ OpFree(IncomeSlot)
  /\ LET income == Head(incomeRun.queue)
         title == <<"Added Income for", income.name, formatDate(NowOf(day))>>
     IN IF ~shouldProcessIncome(income, incomeRun.today)
        THEN /\ incomeRun' = [incomeRun EXCEPT !.queue = Tail(@),
                                               !.attempted = @ \cup {income.id},
                                               !.skippedCount = @ + 1]
             /\ UNCHANGED <<ops, wallets, incomes, expenses, transactions, nextTxId>>
        ELSE IF income.walletId \notin DOMAIN wallets
        THEN /\ incomeRun' = [incomeRun EXCEPT !.queue = Tail(@),
                                               !.attempted = @ \cup {income.id}]
             /\ UNCHANGED <<ops, wallets, incomes, expenses, transactions, nextTxId>>
        ELSE /\ nextTxId <= MaxTx
             /\ SetDB(TransactionCreate(DB, income.walletId, title, income.amount,
                                        "income", NowOf(day)))
             /\ ops' = [ops EXCEPT ![IncomeSlot] =
                          [kind |-> "batchIncome", pc |-> "inc",
                           walletId |-> income.walletId, amount |-> income.amount,
                           transactionType |-> "income", expenseId |-> income.id,
                           seen |-> Undefined, txId |-> nextTxId]]
             /\ UNCHANGED incomeRun
  /\ UNCHANGED <<insufficientLog, day, expenseRun, faultsLeft, cyc, users>>

\* processIncomeSource, lines 86-89
IncomeSubRunInc ==
  /\ OpAt(IncomeSlot, "batchIncome", "inc")
  /\ SetDB(WalletInc(DB, ops[IncomeSlot].walletId, ops[IncomeSlot].amount))
  /\ ops' = [ops EXCEPT ![IncomeSlot].pc = "save"]
  /\ UNCHANGED <<insufficientLog, day, incomeRun, expenseRun, faultsLeft, cyc, users>>

\* processIncomeSource, lines 91-92, and processedCount++, line 180
IncomeSubRunSave ==
  /\ OpAt(IncomeSlot, "batchIncome", "save")
  /\ LET income == incomes[ops[IncomeSlot].expenseId]
     IN SetDB([DB EXCEPT !.incomes[income.id].relaxationDate =
                 incomeUpdateRelaxationDate(income.cycleType, income.cycleDate,
                                            NowOf(day))])
  /\ ops' = [ops EXCEPT ![IncomeSlot] = NoOp]
  /\ incomeRun' = [incomeRun EXCEPT !.queue = Tail(@),
                                    !.attempted = @ \cup {ops[IncomeSlot].expenseId},
                                    !.processedCount = @ + 1]
  /\ UNCHANGED <<insufficientLog, day, expenseRun, faultsLeft, cyc, users>>

\* checkIncomeSources, lines 192-194
IncomeSubRunEnd ==
  /\ incomeRun.phase = "loop" /\ incomeRun.queue = <<>>
  /\ incomeRun' = Done(incomeRun)
  /\ UNCHANGED <<ops, insufficientLog, day, wallets, incomes, expenses,
                 transactions, nextTxId, expenseRun, faultsLeft, cyc, users>>

\* checkExpenseSources, lines 207-218
ExpenseSubRunStart ==
  /\ expenseRun.phase = "idle"
  /\ expenseRun' = [Idle EXCEPT !.phase = "loop", !.today = TodayOf(day),
                                !.queue = FindActive(expenses),
                                !.selected = {i \in DOMAIN expenses : ~expenses[i].isDeleted}]
  /\ UNCHANGED <<ops, insufficientLog, day, wallets, incomes, expenses,
                 transactions, nextTxId, incomeRun, faultsLeft, cyc, users>>

\* the for loop takes its next source, lines 220-234: processExpenseSource
\* runs to UserWallet.findById and tests the balance it answers
ExpenseSubRunFind ==
  /\ expenseRun.phase = "loop" /\ expenseRun.queue # <<>>
  /\ OpFree(ExpenseSlot)
  /\ LET expense == Head(expenseRun.queue)
         gone == expense.walletId \notin DOMAIN wallets
         seen == IF gone THEN Undefined ELSE wallets[expense.walletId].currentAmount
     IN IF ~shouldProcessExpense(expense, expenseRun.today)
        THEN /\ expenseRun' = [expenseRun EXCEPT !.queue = Tail(@),
                                                 !.attempted = @ \cup {expense.id},
                                                 !.skippedCount = @ + 1]
             /\ UNCHANGED <<ops, insufficientLog>>
        ELSE IF gone
        THEN /\ expenseRun' = [expenseRun EXCEPT !.queue = Tail(@),
                                                 !.attempted = @ \cup {expense.id}]
             /\ UNCHANGED <<ops, insufficientLog>>
        ELSE IF seen < expense.amount
        THEN /\ expenseRun' = [expenseRun EXCEPT !.queue = Tail(@),
                                                 !.attempted = @ \cup {expense.id},
                                                 !.insufficientFundsCount = @ + 1]
             /\ insufficientLog' = insufficientLog \cup {<<expense.id, day>>}
             /\ UNCHANGED ops
        ELSE /\ ops' = [ops EXCEPT ![ExpenseSlot] =
                          [kind |-> "batch", pc |-> "create",
                           walletId |-> expense.walletId, amount |-> expense.amount,
                           transactionType |-> "expense", expenseId |-> expense.id,
                           seen |-> seen, txId |-> 0]]
             /\ UNCHANGED <<expenseRun, insufficientLog>>
  /\ UNCHANGED <<day, wallets, incomes, expenses, transactions, nextTxId,
                 incomeRun, faultsLeft, cyc, users>>

\* processExpenseSource, lines 125-134
ExpenseSubRunCreate ==
  /\ expenseRun.phase = "loop"
  /\ BatchCreate(ExpenseSlot)

\* processExpenseSource, lines 136-139
ExpenseSubRunInc ==
  /\ expenseRun.phase = "loop"
  /\ BatchInc(ExpenseSlot)

\* processExpenseSource, lines 141-142, and processedCount++, line 228
ExpenseSubRunSave ==
  /\ expenseRun.phase = "loop"
  /\ OpAt(ExpenseSlot, "batch", "save")
  /\ LET expense == expenses[ops[ExpenseSlot].expenseId]
     IN SetDB([DB EXCEPT !.expenses[expense.id].relaxationDate =
                 expenseUpdateRelaxationDate(expense.cycleType, expense.cycleDate,
                                             NowOf(day))])
  /\ ops' = [ops EXCEPT ![ExpenseSlot] = NoOp]
  /\ expenseRun' = [expenseRun EXCEPT !.queue = Tail(@),
                                      !.attempted = @ \cup {ops[ExpenseSlot].expenseId},
                                      !.processedCount = @ + 1]
  /\ UNCHANGED <<insufficientLog, day, incomeRun, faultsLeft, cyc, users>>

\* checkExpenseSources, lines 243-245
ExpenseSubRunEnd ==
  /\ expenseRun.phase = "loop" /\ expenseRun.queue = <<>>
  /\ OpFree(ExpenseSlot)
  /\ expenseRun' = Done(expenseRun)
  /\ UNCHANGED <<ops, insufficientLog, day, wallets, incomes, expenses,
                 transactions, nextTxId, incomeRun, faultsLeft, cyc, users>>

NextSubRuns ==
  \/ IncomeSubRunStart
  \/ IncomeSubRunCreate
  \/ IncomeSubRunInc
  \/ IncomeSubRunSave
  \/ IncomeSubRunEnd
  \/ ExpenseSubRunStart
  \/ ExpenseSubRunFind
  \/ ExpenseSubRunCreate
  \/ ExpenseSubRunInc
  \/ ExpenseSubRunSave
  \/ ExpenseSubRunEnd

SpecSubRuns == InitSubRuns /\ [][NextSubRuns]_vars

\* the database the two callbacks started from: no Transaction, balances at
\* their initial amounts, no source processed yet
InitialDB ==
  [wallets |-> [w \in DOMAIN wallets |->
                  [wallets[w] EXCEPT !.currentAmount = wallets[w].initialAmount]],
   incomes |-> [i \in DOMAIN incomes |-> [incomes[i] EXCEPT !.relaxationDate = NoDate]],
   expenses |-> [i \in DOMAIN expenses |-> [expenses[i] EXCEPT !.relaxationDate = NoDate]],
   transactions |-> {}, nextTxId |-> 1]

\* checkIncomeSources run alone over the documents q, from database d
RECURSIVE RunIncomes(_, _, _)
RunIncomes(q, now, d) ==
  IF q = <<>> THEN d
  ELSE RunIncomes(Tail(q), now,
                  IF shouldProcessIncome(Head(q), setHoursZero(now))
                  THEN processIncomeSource(Head(q), now, d, 0).db
                  ELSE d)

\* checkExpenseSources run alone over the documents q, from database d
RECURSIVE RunExpenses(_, _, _)
RunExpenses(q, now, d) ==
  IF q = <<>> THEN d
  ELSE RunExpenses(Tail(q), now,
                   IF shouldProcessExpense(Head(q), setHoursZero(now))
                   THEN processExpenseSource(Head(q), now, d, 0).db
                   ELSE d)

\* the income callback to its end, then the expense callback
IncomeThenExpense ==
  LET d0 == InitialDB
      d1 == RunIncomes(FindActive(d0.incomes), NowOf(day), d0)
  IN RunExpenses(FindActive(d0.expenses), NowOf(day), d1)

\* what a set of Transactions records, their _ids apart
Entries(txs) == {<<t.title, t.amount, t.transactionType, t.walletId>> : t \in txs}

BothDone == incomeRun.phase = "done" /\ expenseRun.phase = "done"

\* C28: the income sub-run and the expense sub-run of one morning are
\* independent: whatever the interleaving, when both are over the
\* Transactions created and the wallet balances are those of the income
\* sub-run followed by the expense sub-run.
C28_SubRunsIndependent ==
  BothDone
  => /\ Entries(transactions) = Entries(IncomeThenExpense.transactions)
     /\ wallets = IncomeThenExpense.wallets

\* ------------------------------------------------------ POST /api/wallets
\* the wallets a request asks for: initialAmount and isDefault of each
NewWallets == [initialAmount : 0..MaxInitAmount, isDefault : BOOLEAN]

RECURSIVE InsertMany(_, _)
InsertMany(coll, batch) ==
  IF batch = <<>> THEN coll
  ELSE LET id == NewId(coll)
           doc == [id |-> id, initialAmount |-> Head(batch).initialAmount,
                   currentAmount |-> Head(batch).initialAmount,
                   isDeleted |-> FALSE, isDefault |-> Head(batch).isDefault]
       IN InsertMany((id :> doc) @@ coll, Tail(batch))

\* routes/wallets.js, lines 25-93: UserWallet.insertMany(walletsToCreate)
\* runs no save middleware; fault 2 is the $push on the user's wallets array
postWallets(d, batch, fault) ==
  LET d1 == [d EXCEPT !.wallets = InsertMany(@, batch)]
  IN IF batch = <<>> THEN Reply(d, "400")
     ELSE IF fault = 1 THEN Reply(d, "500")
     ELSE IF fault = 2 THEN Reply(d1, "500")
     ELSE Reply(d1, "201")

PostWallets ==
  /\ NoRun
  /\ \E n \in 0..MaxWallets, fault \in 0..2 :
       /\ Cardinality(DOMAIN wallets) + n <= MaxWallets
       /\ FaultOK(fault)
       /\ fault > 0 => n > 0
       /\ \E batch \in [1..n -> NewWallets] :
            SetDB(postWallets(DB, batch, fault).db)
       /\ faultsLeft' = Spend(fault)
  /\ UNCHANGED <<ops, insufficientLog, day, incomeRun, expenseRun, cyc, users>>

\* a user who has created no wallet yet
InitWallets ==
  /\ day \in StartDays
  /\ wallets = <<>>
  /\ incomes = <<>>
  /\ expenses = <<>>
  /\ transactions = {}
  /\ nextTxId = 1
  /\ incomeRun = Idle
  /\ expenseRun = Idle
  /\ faultsLeft = MaxFaults
  /\ insufficientLog = {}
  /\ ops = NoOps
  /\ cyc = NoCycle
  /\ users = NoUsers

DeleteAnyWallet ==
  /\ NoRun
  /\ \E id \in 1..MaxWallets, fault \in 0..3 :
       /\ FaultOK(fault)
       /\ fault > 1 => (WalletFound(DB, id) /\ ~wallets[id].isDefault)
       /\ SetDB(deleteWallet(DB, id, fault).db)
       /\ faultsLeft' = Spend(fault)
  /\ UNCHANGED <<ops, insufficientLog, day, incomeRun, expenseRun, cyc, users>>

NextWallets ==
  \/ PostWallets
  \/ PutWallet
  \/ DeleteAnyWallet

SpecWallets == InitWallets /\ [][NextWallets]_vars

\* the wallets of the user that are the default one
Defaults == {w \in DOMAIN wallets : wallets[w].isDefault /\ ~wallets[w].isDeleted}

\* C29: after any sequence of bulk wallet creations and wallet updates, at
\* most one of a user's wallets has isDefault = true.
C29_AtMostOneDefaultWallet == Cardinality(Defaults) <= 1

\* ------------------------------------------------- DELETE /api/users/:id
\* a well-formed ObjectId that names no Role document
UnknownRole == 5

\* the permissions of the seed that the users routes ask for
UserPermissions == {"users:update", "users:delete"}

\* the Role collection as seedDatabase leaves it: super-admin holds every
\* permission, admin every one outside permissions:*, moderator reads
\* users only, user holds none on users
Roles ==
  (1 :> [name |-> "super-admin", isActive |-> TRUE,
         permissions |-> UserPermissions]) @@
  (2 :> [name |-> "admin", isActive |-> TRUE,
         permissions |-> UserPermissions]) @@
  (3 :> [name |-> "moderator", isActive |-> TRUE, permissions |-> {}]) @@
  (4 :> [name |-> "user", isActive |-> TRUE, permissions |-> {}])

\* an element of user.roles as a query without populate returns it: the
\* ObjectId of a Role, and the name property of an ObjectId is undefined
Unpopulated(r) == [id |-> r, name |-> "undefined"]

\* User.findById(id): the document, its roles array holding ObjectIds
findById(coll, id) == [id |-> id, roles |-> {Unpopulated(r) : r \in coll[id].roles}]

\* .populate('roles'): every ObjectId is replaced by its Role document
populate(user) ==
  [user EXCEPT !.roles = {[id |-> e.id, name |-> Roles[e.id].name] : e \in @}]

\* user.roles.map(role => role.name)
RoleNames(user) == {role.name : role \in user.roles}

\* protect: req.user = User.findById(decoded.id).populate('roles')
protect(coll, id) == populate(findById(coll, id))

\* authorize(...roles): some role name of req.user is among the given ones
authorize(reqUser, allowed) == RoleNames(reqUser) \cap allowed # {}

\* hasPermission(resource, action): Role.find({_id: {$in: req.user.roles},
\* isActive: true}) holds a role with the permission
hasPermission(reqUser, permission) ==
  \E e \in reqUser.roles :
    Roles[e.id].isActive /\ permission \in Roles[e.id].permissions

UserReply(coll, status) == [users |-> coll, status |-> status]

\* the document deleted
findByIdAndDelete(coll, id) == [u \in DOMAIN coll \ {id} |-> coll[u]]

\* the handler with its super-admin test made on populated roles
\* (sensitivity variant)
deleteUser_populated(coll, id, fault) ==
  IF fault = 1 THEN UserReply(coll, "500")
  ELSE IF id \notin DOMAIN coll THEN UserReply(coll, "404")
  ELSE IF "super-admin" \in RoleNames(populate(findById(coll, id)))
       THEN UserReply(coll, "403")
  ELSE IF fault = 2 THEN UserReply(coll, "500")
  ELSE UserReply(findByIdAndDelete(coll, id), "200")

\* the handler of DELETE /api/users/:id: fault 1 is User.findById
\* rejecting, fault 2 User.findByIdAndDelete rejecting
deleteUser(coll, id, fault) ==
  IF fault = 1 THEN UserReply(coll, "500")
  ELSE IF id \notin DOMAIN coll THEN UserReply(coll, "404")
  ELSE LET user == findById(coll, id)
           userRoles == RoleNames(user)
       IN IF "super-admin" \in userRoles THEN UserReply(coll, "403")
          ELSE IF fault = 2 THEN UserReply(coll, "500")
          ELSE UserReply(findByIdAndDelete(coll, id), "200")

\* the handler of PUT /api/users/:id/roles: fault 1 is User.findById
\* rejecting, fault 2 Role.find, fault 3 user.save
assignRoles(coll, id, roles, fault) ==
  IF roles = {} THEN UserReply(coll, "400")
  ELSE IF fault = 1 THEN UserReply(coll, "500")
  ELSE IF id \notin DOMAIN coll THEN UserReply(coll, "404")
  ELSE IF fault = 2 THEN UserReply(coll, "500")
  ELSE IF {r \in roles : r \in DOMAIN Roles /\ Roles[r].isActive} # roles
       THEN UserReply(coll, "400")
  ELSE IF fault = 3 THEN UserReply(coll, "500")
  ELSE UserReply([coll EXCEPT ![id].roles = roles], "200")

\* the requests the three middlewares let through to a users handler
Admitted(actor, permission) ==
  /\ actor \in DOMAIN users
  /\ authorize(protect(users, actor), {"admin", "super-admin"})
  /\ hasPermission(protect(users, actor), permission)

DeleteUser ==
  /\ \E actor \in 1..MaxUsers, id \in 1..MaxUsers, fault \in 0..2 :
       /\ Admitted(actor, "users:delete")
       /\ FaultOK(fault)
       /\ fault = 2 => deleteUser(users, id, 0).status = "200"
       /\ users' = deleteUser(users, id, fault).users
       /\ faultsLeft' = Spend(fault)
  /\ UNCHANGED <<ops, insufficientLog, day, wallets, incomes, expenses,
                 transactions, nextTxId, incomeRun, expenseRun, cyc>>

AssignRoles ==
  /\ \E actor \in 1..MaxUsers, id \in 1..MaxUsers, fault \in 0..3,
        roles \in SUBSET (DOMAIN Roles \cup {UnknownRole}) :
       /\ Admitted(actor, "users:update")
       /\ FaultOK(fault)
       /\ fault > 1 => id \in DOMAIN users
       /\ fault = 3 => assignRoles(users, id, roles, 0).status = "200"
       /\ users' = assignRoles(users, id, roles, fault).users
       /\ faultsLeft' = Spend(fault)
  /\ UNCHANGED <<ops, insufficientLog, day, wallets, incomes, expenses,
                 transactions, nextTxId, incomeRun, expenseRun, cyc>>

\* the seeded super-admin, and the other users with the role of a
\* registration
InitUsers ==
  /\ day = Min(StartDays)
  /\ wallets = <<>>
  /\ incomes = <<>>
  /\ expenses = <<>>
  /\ transactions = {}
  /\ nextTxId = 1
  /\ incomeRun = Idle
  /\ expenseRun = Idle
  /\ faultsLeft = MaxFaults
  /\ insufficientLog = {}
  /\ ops = NoOps
  /\ cyc = NoCycle
  /\ users = [u \in 1..MaxUsers |-> [roles |-> IF u = 1 THEN {1} ELSE {4}]]

NextUsers == DeleteUser \/ AssignRoles

SpecUsers == InitUsers /\ [][NextUsers]_vars

\* the users whose roles include super-admin
SuperAdmins == {u \in DOMAIN users : "super-admin" \in RoleNames(protect(users, u))}

\* C30: the user-deletion operation never removes a user who holds the
\* super-admin role: whatever DELETE /api/users/:id is asked, every user
\* whose roles include super-admin still exists afterwards.
C30_SuperAdminNeverDeleted == [][SuperAdmins \subseteq DOMAIN users']_vars

====
